---- MODULE Spec2Model ----
(***************************************************************************)
(* The generation engine of api.mineskin.org: the account scheduler        *)
(* (Account.findUsable and the locked-account set), the URL / upload       *)
(* generation pipeline of Generator (hash duplicate probe, account          *)
(* acquisition and authentication, upstream skin change, result fetch,     *)
(* success / error handlers) and the persisting of the new skin            *)
(* (makeRandomSkinId, saveSkin).                                           *)
(*                                                                         *)
(* Every request is a sequential async flow.  One action of the model is   *)
(* the code that runs from the completion of one awaited I/O operation to  *)
(* the start of the next one; the awaited database operation takes effect  *)
(* in the action that resumes after it.  Requests of one serving process   *)
(* share that process's locked-account set; all serving processes share    *)
(* the two collections (accounts, skins).                                  *)
(*                                                                         *)
(* Document.save() of the object mapper writes the paths of the document   *)
(* that were modified since it was loaded or last saved, and leaves the    *)
(* other fields of the stored record as they are.                          *)
(***************************************************************************)
EXTENDS Integers, FiniteSets, Sequences, TLC

(***************************************************************************)
(* Bounds of the model.                                                    *)
(***************************************************************************)
NumReqs == 2
NumAccounts == 2
NumPixels == 2
IdBits == 2
MaxTicks == 1
T0 == 1000

Reqs == 1..NumReqs
AccountIds == 1..NumAccounts
Pixels == 1..NumPixels
Servers == {"s1", "s2"}
TickSteps == {101}

(***************************************************************************)
(* Program constants.                                                      *)
(***************************************************************************)
MAX_ID_TRIES == 10
ERROR_THRESHOLD == 10
SELECTED_COOLDOWN == 50
USED_COOLDOWN == 100
FORCED_TIMEOUT == 500
ADDED_DELAY == 60

\* A field that is missing from a document (undefined / null / $exists: false).
Unset == -1
NoServer == "unset"

VARIABLES now, ticks, accounts, lockedAccounts, skins, req

vars == <<now, ticks, accounts, lockedAccounts, skins, req>>

(***************************************************************************)
(* Skin model names and request options.                                   *)
(***************************************************************************)
SkinModels == {"steve", "slim", "unknown"}
Names == {"steve", "alex"}
Visibilities == {0, 1}
GenerateTypes == {"url", "upload"}


(***************************************************************************)
(* Stored documents.                                                       *)
(***************************************************************************)
NoDoc ==
    [id |-> Unset, enabled |-> FALSE, requestServer |-> NoServer,
     lastRequestServer |-> NoServer, lastSelected |-> Unset, lastUsed |-> Unset,
     forcedTimeoutAt |-> Unset, errorCounter |-> Unset, successCounter |-> Unset,
     totalErrorCounter |-> Unset, totalSuccessCounter |-> Unset,
     timeAdded |-> Unset, sameTextureCounter |-> Unset,
     clientToken |-> "", accessToken |-> ""]

AccountFields == DOMAIN NoDoc

NoSkin ==
    [id |-> Unset, hash |-> Unset, uuid |-> "", texture |-> Unset, name |-> "",
     model |-> "", visibility |-> Unset, account |-> Unset, type |-> "",
     duplicate |-> Unset]

SkinFields == DOMAIN NoSkin

\* An account that was never selected: only the fields set at creation exist.
FreshAccount(a) ==
    [NoDoc EXCEPT !.id = a, !.enabled = TRUE, !.errorCounter = 0,
                  !.timeAdded = T0 - ADDED_DELAY - 1, !.sameTextureCounter = 0]

\* An account that has generated before and is past every cooldown.
UsedAccount(a) ==
    [NoDoc EXCEPT !.id = a, !.enabled = TRUE, !.requestServer = "default",
                  !.lastSelected = T0 - SELECTED_COOLDOWN - 1,
                  !.lastUsed = T0 - USED_COOLDOWN - 1,
                  !.forcedTimeoutAt = T0 - FORCED_TIMEOUT - 1,
                  !.errorCounter = 0, !.successCounter = 1,
                  !.totalErrorCounter = 1, !.totalSuccessCounter = 1,
                  !.timeAdded = 0, !.sameTextureCounter = a]

\* The account catalogs the model starts from: account 1 and the others.
Catalogs == {"pool", "single", "cooldown", "budget", "bound"}

CatalogAccount(c, a) ==
    CASE c = "pool" ->
           IF a = 1 THEN FreshAccount(a) ELSE UsedAccount(a)
      [] c = "single" ->
           IF a = 1 THEN UsedAccount(a)
           ELSE [UsedAccount(a) EXCEPT !.enabled = FALSE]
      [] c = "cooldown" ->
           IF a = 1 THEN [UsedAccount(a) EXCEPT !.lastUsed = T0 - USED_COOLDOWN]
           ELSE [UsedAccount(a) EXCEPT !.lastSelected = T0 - SELECTED_COOLDOWN]
      [] c = "budget" ->
           IF a = 1 THEN [UsedAccount(a) EXCEPT !.errorCounter = ERROR_THRESHOLD - 1]
           ELSE [UsedAccount(a) EXCEPT !.errorCounter = ERROR_THRESHOLD]
      [] OTHER ->
           IF a = 1 THEN [UsedAccount(a) EXCEPT !.requestServer = "s2",
                                                !.forcedTimeoutAt = T0 - FORCED_TIMEOUT]
           ELSE [FreshAccount(a) EXCEPT !.timeAdded = T0 - ADDED_DELAY,
                                        !.requestServer = "s1"]

(***************************************************************************)
(* Caching: the process-wide set of locked account ids.                    *)
(***************************************************************************)
getLockedAccounts(server) == lockedAccounts[server]

lockSelectedAccount(server, id) ==
    [lockedAccounts EXCEPT ![server] = @ \cup {id}]

(***************************************************************************)
(* Temp: scoped on-disk handles, one per directory and request.            *)
(***************************************************************************)
URL_DIR == "url"
UPL_DIR == "upl"
MOJ_DIR == "moj"

\* Temp.file({dir}): the handles held after a new one is acquired.
TempFile(temps, dir) == temps \cup {dir}

\* tempFile.remove(): the handles held after one is released.
remove(temps, dir) == temps \ {dir}

(***************************************************************************)
(* Account.findUsable: the query.                                          *)
(***************************************************************************)
MatchesUsable(a, time, locked, server) ==
    /\ a.enabled
    /\ a.id \notin locked
    /\ a.requestServer \in {NoServer, "default", server}
    /\ (a.lastSelected = Unset \/ a.lastSelected < time - SELECTED_COOLDOWN)
    /\ (a.lastUsed = Unset \/ a.lastUsed < time - USED_COOLDOWN)
    /\ (a.forcedTimeoutAt = Unset \/ a.forcedTimeoutAt < time - FORCED_TIMEOUT)
    /\ a.errorCounter # Unset
    /\ a.errorCounter < ERROR_THRESHOLD
    /\ a.timeAdded # Unset
    /\ a.timeAdded < time - ADDED_DELAY

\* A sort by lastUsed alone.
SortsBeforeByLastUsed(a, b) == a.lastUsed < b.lastUsed

\* sort({lastUsed: 1, lastSelected: 1, sameTextureCounter: 1}); a missing
\* field sorts before every number.
SortsBefore(a, b) ==
    \/ a.lastUsed < b.lastUsed
    \/ /\ a.lastUsed = b.lastUsed
       /\ a.lastSelected < b.lastSelected
    \/ /\ a.lastUsed = b.lastUsed
       /\ a.lastSelected = b.lastSelected
       /\ a.sameTextureCounter < b.sameTextureCounter

\* A query that answers with any account, usable or not.
FindOneAny(time, locked, server) == AccountIds

\* The ids findOne(...).sort(...) may answer with; {Unset} when nothing matches.
FindOneUsable(time, locked, server) ==
    LET matching == {a \in AccountIds :
                        MatchesUsable(accounts[a], time, locked, server)}
        first == {a \in matching :
                     \A b \in matching : ~SortsBefore(accounts[b], accounts[a])}
    IN  IF matching = {} THEN {Unset} ELSE first

\* Document.save(): the modified paths of doc are written over the stored record.
SaveDoc(stored, doc, saved) ==
    [f \in DOMAIN stored |-> IF doc[f] # saved[f] THEN doc[f] ELSE stored[f]]

\* updateRequestServer(newRequestServer)
updateRequestServer(doc, newRequestServer) ==
    [doc EXCEPT !.lastRequestServer =
                    IF doc.requestServer # NoServer
                       /\ doc.requestServer # newRequestServer
                    THEN doc.requestServer ELSE @,
                !.requestServer = newRequestServer]

(***************************************************************************)
(* Optimus id encoder at the model's id width, and the perceptual hash.    *)
(***************************************************************************)
OPTIMUS_PRIME == 3
OPTIMUS_RANDOM == 1

RECURSIVE Pow2(_)
Pow2(n) == IF n = 0 THEN 1 ELSE 2 * Pow2(n - 1)

RECURSIVE BitXor(_, _, _)
BitXor(a, b, bits) ==
    IF bits = 0 THEN 0
    ELSE (((a % 2) + (b % 2)) % 2) + 2 * BitXor(a \div 2, b \div 2, bits - 1)

SkinIds == 0..(Pow2(IdBits) - 1)

\* optimus.encode: ((n * prime) & MAX_INT) ^ random, at IdBits bits.
encode(n) == BitXor((n * OPTIMUS_PRIME) % Pow2(IdBits), OPTIMUS_RANDOM, IdBits)

\* imageHash: a deterministic hash of the pixel content, as a hex string.
HASH_LENGTH == 32
MIN_HASH_LENGTH == 30
NoHash == <<>>
imageHash(pixels) == <<"phash", pixels>>
HashLength(hash) == IF hash = NoHash THEN 0 ELSE HASH_LENGTH

(***************************************************************************)
(* Image validation: validateTempFile's guards and validateImageData.      *)
(***************************************************************************)
MIN_IMAGE_SIZE == 100
MAX_IMAGE_SIZE == 20000
ALLOWED_IMAGE_TYPES == {"image/png"}
OPAQUE == 255
SCAN_X == 54
SCAN_Y == 20
SCAN_W == 2
SCAN_H == 12

CLASSIC == "steve"
SLIM == "slim"
UNKNOWN == "unknown"

\* The pixels image.scan(54, 20, 2, 12, ...) visits.
Rect == (SCAN_X..(SCAN_X + SCAN_W - 1)) \X (SCAN_Y..(SCAN_Y + SCAN_H - 1))

\* mime.startsWith("image")
IsImage(mime) == mime \in {"image/png", "image/jpeg"}

\* width !== 64 || (height !== 64 && height !== 32)
BadDimensions(width, height) ==
    width # 64 \/ (height # 64 /\ height # 32)

\* imageSize(imageBuffer): the dimensions; it throws a TypeError for a buffer
\* that is of no image format it supports.
imageSize(buffer) ==
    IF IsImage(buffer.mime)
    THEN [error |-> "none", width |-> buffer.width, height |-> buffer.height]
    ELSE [error |-> "type_error", width |-> Unset, height |-> Unset]

\* validateImageData: the dimension guard and the variant inference.
validateImageData(buffer) ==
    IF BadDimensions(buffer.width, buffer.height)
    THEN [error |-> "invalid_image", model |-> UNKNOWN]
    ELSE IF buffer.height < 64
    THEN [error |-> "none", model |-> CLASSIC]
    ELSE LET allTransparent == ~ \E p \in Rect : buffer.alpha[p] = OPAQUE
         IN  [error |-> "none", model |-> IF allTransparent THEN SLIM ELSE CLASSIC]

\* validateTempFile up to the hash: the error thrown ("none": the buffer
\* passes) and options.model after the detection.
validateTempFile(buffer, options) ==
    LET size == buffer.len
        dimensions == imageSize(buffer)
        dataValidation == validateImageData(buffer)
        fail(e) == [error |-> e, model |-> options.model]
    IN  IF size = 0 \/ size < MIN_IMAGE_SIZE \/ size > MAX_IMAGE_SIZE
        THEN fail("invalid_image")
        ELSE IF dimensions.error # "none"
        THEN fail(dimensions.error)
        ELSE IF BadDimensions(dimensions.width, dimensions.height)
        THEN fail("invalid_image")
        ELSE IF ~IsImage(buffer.mime) \/ buffer.mime \notin ALLOWED_IMAGE_TYPES
        THEN fail("invalid_image")
        ELSE IF dataValidation.error # "none"
        THEN fail(dataValidation.error)
        ELSE [error |-> "none",
              model |-> IF options.model = UNKNOWN /\ dataValidation.model # UNKNOWN
                        THEN dataValidation.model ELSE options.model]

(***************************************************************************)
(* Urls: the follow allowlist and the patterns of the source-url probe.    *)
(***************************************************************************)
URL_FOLLOW_WHITELIST == {"novask.in", "imgur.com"}

\* MINESKIN_URL_REGEX: //minesk.in/<digits> or //mineskin.org/<digits>
MineskinUrlMatch(url) ==
    url.host \in {"minesk.in", "mineskin.org"} /\ url.dir = "" /\ url.id # Unset

\* MINECRAFT_TEXTURE_REGEX: //textures.minecraft.net/texture/<hash>
MinecraftTextureMatch(url) ==
    url.host = "textures.minecraft.net" /\ url.dir = "texture" /\ url.id # Unset

(***************************************************************************)
(* Requests.                                                               *)
(***************************************************************************)
NoOptions == [name |-> "", model |-> "", visibility |-> Unset]

\* A url of the shape scheme://host/dir/id; dir and id may be missing.
NoUrl == [host |-> "", dir |-> "", id |-> Unset]

\* The answer to the HEAD request of followUrl: the url the redirects ended
\* at and the content-type and content-length headers.
NoResponse == [responseUrl |-> NoUrl, contentType |-> "", contentLength |-> Unset]

\* The image file: byte length, detected type, dimensions, the alpha channel of
\* the rectangle validateImageData scans, and the pixel content.
NoBuffer == [len |-> Unset, mime |-> "", width |-> Unset, height |-> Unset,
             alpha |-> <<>>, pixels |-> Unset]

\* The tokens of an account; "" is a token that is missing (undefined, null).
NoTokens == [clientToken |-> "", accessToken |-> ""]

\* What the callback of request() is called with: err, response.statusCode
\* and, of the body, error and accessToken.
NoAuthResponse == [err |-> FALSE, statusCode |-> Unset, error |-> FALSE, accessToken |-> ""]

\* The calls of authenticate(account, cb) on one account.  stored is the
\* account record, account the document of the call in progress, before the
\* tokens the call was made with; validate, refresh and login are the answers
\* the call got, sent the requests it posted, cb what its callback was called
\* with.  calls counts the calls, clientTokens lists the client token of every
\* request posted by any of them, and valid holds the token pairs the
\* authentication server accepts.
NoAuth ==
    [pc |-> "idle", account |-> NoTokens, stored |-> NoTokens, before |-> NoTokens,
     validate |-> NoAuthResponse, refresh |-> NoAuthResponse, login |-> NoAuthResponse,
     sent |-> <<>>, cb |-> "none", calls |-> 0, clientTokens |-> <<>>, valid |-> {}]

\* An answer to a request of completeChallenges: err, response.statusCode and
\* the body, a list of question ids; NotAList is a body that is no list.
NotAList == <<-1>>
NoChallengeResponse == [err |-> FALSE, statusCode |-> Unset, questions |-> <<>>]

\* A call of completeChallenges(account, cb): security is the stored answer,
\* sent the requests made, location, list and post the answers to them,
\* answers the array posted, cb what the callback was called with.
NoChallenges ==
    [pc |-> "idle", security |-> "", sent |-> <<>>,
     location |-> NoChallengeResponse, list |-> NoChallengeResponse,
     post |-> NoChallengeResponse, answers |-> <<>>, cb |-> "none"]

\* The tokens of an account document.
TokensOf(doc) == [clientToken |-> doc.clientToken, accessToken |-> doc.accessToken]

\* url, response, buffer and uuid are the call's input and what the network
\* answers; temps are the temp handles held, tempsUsed those ever acquired,
\* upstream the calls made to the upstream skin service.
\* No delay has been calculated.
NoDelay == [pc |-> "idle", usable |-> Unset, min |-> Unset, hint |-> Unset]

IdleReq ==
    [pc |-> "idle", server |-> "", type |-> "", options |-> NoOptions,
     url |-> NoUrl, response |-> NoResponse, buffer |-> NoBuffer, uuid |-> "",
     temps |-> {}, tempsUsed |-> {}, upstream |-> {},
     pixels |-> Unset, hash |-> NoHash, time |-> Unset, locked |-> {},
     doc |-> NoDoc, saved |-> NoDoc, lease |-> NoDoc, account |-> FALSE,
     error |-> "none", released |-> <<>>, releasedAt |-> Unset, after |-> {},
     duplicate |-> NoSkin,
     tryN |-> 0, newId |-> Unset, skin |-> NoSkin, auth |-> NoAuth,
     bearer |-> "", challenges |-> NoChallenges,
     delay |-> NoDelay, httpCode |-> Unset]

Init ==
    /\ now = T0
    /\ ticks = 0
    /\ \E c \in Catalogs : accounts = [a \in AccountIds |-> CatalogAccount(c, a)]
    /\ lockedAccounts = [s \in Servers |-> {}]
    /\ skins = [i \in SkinIds |-> NoSkin]
    /\ req = [r \in Reqs |-> IdleReq]

\* Skin.findOne({hash, name, model: options.name, visibility})
HashQuery(hash, options) ==
    {i \in SkinIds : /\ skins[i].id # Unset
                     /\ skins[i].hash = hash
                     /\ skins[i].name = options.name
                     /\ skins[i].model = options.name
                     /\ skins[i].visibility = options.visibility}

\* findDuplicateFromImageHash: the ids of the skins the probe may hit.
findDuplicateFromImageHash(hash, options) ==
    IF hash = NoHash \/ HashLength(hash) < MIN_HASH_LENGTH THEN {}
    ELSE HashQuery(hash, options)

\* findDuplicateFromUrl: the ids of the skins the source-url probe may hit.
findDuplicateFromUrl(url, options) ==
    LET filtered == {i \in SkinIds : /\ skins[i].id # Unset
                                     /\ skins[i].name = options.name
                                     /\ skins[i].model = options.model
                                     /\ skins[i].visibility = options.visibility}
    IN  IF url = NoUrl THEN {}
        ELSE IF MineskinUrlMatch(url)
        THEN {i \in filtered : skins[i].id = url.id}
        ELSE IF MinecraftTextureMatch(url)
        THEN {i \in filtered : skins[i].texture = url.id}
        ELSE {}

\* findDuplicateFromUuid: the ids of the skins the user-uuid probe may hit.
findDuplicateFromUuid(uuid, options) ==
    IF uuid = "" THEN {}
    ELSE {i \in SkinIds : /\ skins[i].id # Unset
                          /\ skins[i].uuid = uuid
                          /\ skins[i].name = options.name
                          /\ skins[i].model = options.name
                          /\ skins[i].visibility = options.visibility}

\* handleGenerateSuccess: the changes made to the account document.
handleGenerateSuccess(doc) ==
    [doc EXCEPT !.errorCounter = 0,
                !.successCounter = @ + 1,
                !.totalSuccessCounter = @ + 1]

\* handleGenerateError: the changes made to the account document.
handleGenerateError(doc, e, time) ==
    LET counted == [doc EXCEPT !.successCounter = 0,
                               !.errorCounter = @ + 1,
                               !.totalErrorCounter = @ + 1]
    IN  IF e = "authentication"
        THEN updateRequestServer([counted EXCEPT !.forcedTimeoutAt = time], NoServer)
        ELSE counted

\* The temp directory of an input type.
TempDir(type) == IF type = "url" THEN URL_DIR ELSE UPL_DIR

\* An end of the request that leaves its temp file in place.
FinallyNoRemove(q) == q

\* finally { if (tempFile) { tempFile.remove(); } }
Finally(q) == [q EXCEPT !.temps = remove(@, TempDir(q.type))]

\* getMojangHash's own temp file: acquired, and removed in its finally.
MojangTemp(q) ==
    [q EXCEPT !.tempsUsed = @ \cup {MOJ_DIR},
              !.temps = remove(TempFile(@, MOJ_DIR), MOJ_DIR)]

\* The catch block without the finally block after it.
CatchNoFinally(q, e) ==
    IF q.account
    THEN [q EXCEPT !.doc = handleGenerateError(q.doc, e, now),
                   !.released = Append(@, "failure"), !.releasedAt = now,
                   !.error = e, !.pc = "saveError"]
    ELSE [q EXCEPT !.error = e, !.pc = "done"]

\* released, releasedAt and after record, for the properties below, the release
\* handlers a request has run on its account, when it ran the last one, and the
\* requests that had ended when it started.
\* catch (e) { await this.handleGenerateError(e, account); throw e; }
Catch(q, e) ==
    IF q.account
    THEN [q EXCEPT !.doc = handleGenerateError(q.doc, e, now),
                   !.released = Append(@, "failure"), !.releasedAt = now,
                   !.error = e, !.pc = "saveError"]
    ELSE Finally([q EXCEPT !.error = e, !.pc = "done"])

\* new GeneratorError(code, msg, httpCode = 500, ...): the error the request has
\* ended with carries httpCode.
DEFAULT_HTTP_CODE == 500

GeneratorError(q, httpCode) == [q EXCEPT !.httpCode = httpCode]

\* preErrorHandler: the status of the response to a MineSkinError.
Status(q) == IF q.httpCode # Unset /\ q.httpCode # 0 THEN q.httpCode ELSE 500

\* generateFromUrl / generateFromUpload is called on a serving process with an
\* image that passes validation; a url is a plain image url, which
\* findDuplicateFromUrl does not match.
\* Request slots are interchangeable: they are taken in order.
Generate(r, server, input) ==
    /\ req[r].pc = "idle"
    /\ \A q \in Reqs : q < r => req[q].pc # "idle"
    /\ req' = [req EXCEPT ![r] = [@ EXCEPT !.pc = "validate", !.server = server,
                                           !.type = input.type,
                                           !.options = input.options,
                                           !.pixels = input.pixels,
                                           !.temps = TempFile(@, TempDir(input.type)),
                                           !.tempsUsed = TempFile(@, TempDir(input.type)),
                                           !.after = {q \in Reqs : req[q].pc = "done"}]]
    /\ UNCHANGED <<now, ticks, accounts, lockedAccounts, skins>>

\* generateFromUrl is called with a url; followUrl sends its HEAD request.
GenerateFromUrl(r, server, input) ==
    /\ req[r].pc = "idle"
    /\ \A q \in Reqs : q < r => req[q].pc # "idle"
    /\ req' = [req EXCEPT ![r] = [@ EXCEPT !.pc = "followUrl", !.server = server,
                                           !.type = "url",
                                           !.options = input.options,
                                           !.url = input.url,
                                           !.after = {q \in Reqs : req[q].pc = "done"}]]
    /\ UNCHANGED <<now, ticks, accounts, lockedAccounts, skins>>

\* followUrl returns: undefined for a host that is not allowlisted (no request
\* is sent) or when the request fails (response = NoResponse), else the answer.
\* No answer or no response url is INVALID_IMAGE_URL; otherwise
\* findDuplicateFromUrl sends its query.
FollowUrl(r, response) ==
    /\ req[r].pc = "followUrl"
    /\ req[r].url.host \notin URL_FOLLOW_WHITELIST => response = NoResponse
    /\ req' = [req EXCEPT ![r] =
                 IF response = NoResponse \/ response.responseUrl = NoUrl
                 THEN GeneratorError(Catch(@, "invalid_image_url"), DEFAULT_HTTP_CODE)
                 ELSE [@ EXCEPT !.pc = "urlProbe", !.response = response]]
    /\ UNCHANGED <<now, ticks, accounts, lockedAccounts, skins>>

\* findDuplicateFromUrl: the probe hits; existingSkin.duplicate++ and save().
UrlProbeHit(r) ==
    /\ req[r].pc = "urlProbe"
    /\ \E i \in findDuplicateFromUrl(req[r].response.responseUrl, req[r].options) :
          req' = [req EXCEPT ![r] = [@ EXCEPT !.pc = "saveDuplicate",
                                              !.duplicate = [skins[i] EXCEPT !.duplicate = @ + 1]]]
    /\ UNCHANGED <<now, ticks, accounts, lockedAccounts, skins>>

\* findDuplicateFromUrl: a miss.  The content-type and content-length headers
\* are checked, a temp file is acquired and the download starts.
UrlProbeMiss(r) ==
    /\ req[r].pc = "urlProbe"
    /\ findDuplicateFromUrl(req[r].response.responseUrl, req[r].options) = {}
    /\ LET contentType == req[r].response.contentType
           size == req[r].response.contentLength
       IN  req' = [req EXCEPT ![r] =
                     IF ~IsImage(contentType) \/ contentType \notin ALLOWED_IMAGE_TYPES
                     THEN GeneratorError(Catch(@, "invalid_image"), 400)
                     ELSE IF size = Unset \/ size < MIN_IMAGE_SIZE \/ size > MAX_IMAGE_SIZE
                     THEN GeneratorError(Catch(@, "invalid_image"), 400)
                     ELSE [@ EXCEPT !.pc = "download",
                                    !.temps = TempFile(@, URL_DIR),
                                    !.tempsUsed = TempFile(@, URL_DIR)]]
    /\ UNCHANGED <<now, ticks, accounts, lockedAccounts, skins>>

\* Temp.downloadImage ends: it failed (buffer = NoBuffer; the error is caught
\* and INVALID_IMAGE is thrown in its place) or the file holds the buffer,
\* which validateTempFile reads.
Download(r, buffer) ==
    /\ req[r].pc = "download"
    /\ req' = [req EXCEPT ![r] =
                 IF buffer = NoBuffer THEN GeneratorError(Catch(@, "invalid_image"), 500)
                 ELSE [@ EXCEPT !.pc = "validateTempFile", !.buffer = buffer,
                                !.pixels = buffer.pixels]]
    /\ UNCHANGED <<now, ticks, accounts, lockedAccounts, skins>>

\* generateFromUpload is called; a temp file is acquired and the copy starts.
GenerateFromUpload(r, server, input) ==
    /\ req[r].pc = "idle"
    /\ \A q \in Reqs : q < r => req[q].pc # "idle"
    /\ req' = [req EXCEPT ![r] = [@ EXCEPT !.pc = "copy", !.server = server,
                                           !.type = "upload",
                                           !.options = input.options,
                                           !.temps = TempFile(@, UPL_DIR),
                                           !.tempsUsed = TempFile(@, UPL_DIR),
                                           !.after = {q \in Reqs : req[q].pc = "done"}]]
    /\ UNCHANGED <<now, ticks, accounts, lockedAccounts, skins>>

\* Temp.copyUploadedImage ends: it failed (buffer = NoBuffer; the error is
\* caught and INVALID_IMAGE is thrown in its place) or the file holds the
\* buffer, which validateTempFile reads.
CopyUploadedImage(r, buffer) ==
    /\ req[r].pc = "copy"
    /\ req' = [req EXCEPT ![r] =
                 IF buffer = NoBuffer THEN GeneratorError(Catch(@, "invalid_image"), 500)
                 ELSE [@ EXCEPT !.pc = "validateTempFile", !.buffer = buffer,
                                !.pixels = buffer.pixels]]
    /\ UNCHANGED <<now, ticks, accounts, lockedAccounts, skins>>

\* validateTempFile: the guards and the variant detection; the buffer that
\* passes is hashed and findDuplicateFromImageHash sends its query.
ValidateTempFile(r) ==
    /\ req[r].pc = "validateTempFile"
    /\ LET validation == validateTempFile(req[r].buffer, req[r].options)
       IN  req' = [req EXCEPT ![r] =
                     IF validation.error # "none"
                     THEN IF validation.error = "invalid_image"
                          THEN GeneratorError(Catch(@, validation.error), 400)
                          ELSE Catch(@, validation.error)
                     ELSE [@ EXCEPT !.pc = "validate",
                                    !.options.model = validation.model]]
    /\ UNCHANGED <<now, ticks, accounts, lockedAccounts, skins>>

\* generateFromUser is called; findDuplicateFromUuid sends its query.
\* input.pixels is the skin the user wears.
GenerateFromUser(r, server, input) ==
    /\ req[r].pc = "idle"
    /\ \A q \in Reqs : q < r => req[q].pc # "idle"
    /\ req' = [req EXCEPT ![r] = [@ EXCEPT !.pc = "uuidProbe", !.server = server,
                                           !.type = "user",
                                           !.options = input.options,
                                           !.uuid = input.uuid,
                                           !.pixels = input.pixels,
                                           !.after = {q \in Reqs : req[q].pc = "done"}]]
    /\ UNCHANGED <<now, ticks, accounts, lockedAccounts, skins>>

\* findDuplicateFromUuid: the probe hits; existingSkin.duplicate++ and save().
UuidProbeHit(r) ==
    /\ req[r].pc = "uuidProbe"
    /\ \E i \in findDuplicateFromUuid(req[r].uuid, req[r].options) :
          req' = [req EXCEPT ![r] = [@ EXCEPT !.pc = "saveDuplicate",
                                              !.duplicate = [skins[i] EXCEPT !.duplicate = @ + 1]]]
    /\ UNCHANGED <<now, ticks, accounts, lockedAccounts, skins>>

\* A miss after which the request acquires an account, as the url and upload
\* paths do.
UuidProbeMissAcquires(r) ==
    /\ req[r].pc = "uuidProbe"
    /\ findDuplicateFromUuid(req[r].uuid, req[r].options) = {}
    /\ req' = [req EXCEPT ![r] = [@ EXCEPT !.pc = "findOne", !.time = now,
                                           !.locked = getLockedAccounts(req[r].server)]]
    /\ UNCHANGED <<now, ticks, accounts, lockedAccounts, skins>>

\* findDuplicateFromUuid: a miss; getSkinData is called for the user.
UuidProbeMiss(r) ==
    /\ req[r].pc = "uuidProbe"
    /\ findDuplicateFromUuid(req[r].uuid, req[r].options) = {}
    /\ req' = [req EXCEPT ![r] = [@ EXCEPT !.pc = "userSkinData"]]
    /\ UNCHANGED <<now, ticks, accounts, lockedAccounts, skins>>

\* generateFromUser: getSkinData answers; ok: getMojangHash is called; else
\* INVALID_SKIN_DATA reaches the caller.
UserSkinData(r, ok) ==
    /\ req[r].pc = "userSkinData"
    /\ req' = [req EXCEPT ![r] =
                 IF ok THEN [@ EXCEPT !.pc = "userMojangHash"]
                 ELSE GeneratorError([@ EXCEPT !.pc = "done",
                                               !.error = "invalid_skin_data"], 500)]
    /\ UNCHANGED <<now, ticks, accounts, lockedAccounts, skins>>

\* generateFromUser: getMojangHash answers; ok: the result is returned and
\* getDuplicateOrSaved -> saveSkin -> makeNewSkinId starts; else the download
\* error reaches the caller.
UserMojangHash(r, ok) ==
    /\ req[r].pc = "userMojangHash"
    /\ req' = [req EXCEPT ![r] =
                 IF ok THEN [MojangTemp(@) EXCEPT !.pc = "newId", !.tryN = 0,
                                                  !.hash = imageHash(req[r].pixels)]
                 ELSE [MojangTemp(@) EXCEPT !.pc = "done", !.error = "download_error"]]
    /\ UNCHANGED <<now, ticks, accounts, lockedAccounts, skins>>

\* validateTempFile up to the answer of the hash probe's findOne: a miss.
\* getAndAuthenticateAccount then calls Account.findUsable, which builds its
\* query from the current time and the locked set.
HashProbeMiss(r) ==
    /\ req[r].pc = "validate"
    /\ findDuplicateFromImageHash(imageHash(req[r].pixels), req[r].options) = {}
    /\ req' = [req EXCEPT ![r] = [@ EXCEPT !.pc = "findOne",
                                           !.hash = imageHash(req[r].pixels),
                                           !.time = now,
                                           !.locked = getLockedAccounts(req[r].server)]]
    /\ UNCHANGED <<now, ticks, accounts, lockedAccounts, skins>>

\* HashProbeHit with the duplicate noted and the generation carried on.
HashProbeHitContinues(r) ==
    /\ req[r].pc = "validate"
    /\ \E i \in findDuplicateFromImageHash(imageHash(req[r].pixels), req[r].options) :
          req' = [req EXCEPT ![r] = [@ EXCEPT !.pc = "findOne",
                                              !.hash = imageHash(req[r].pixels),
                                              !.time = now,
                                              !.locked = getLockedAccounts(req[r].server),
                                              !.duplicate = [skins[i] EXCEPT !.duplicate = @ + 1]]]
    /\ UNCHANGED <<now, ticks, accounts, lockedAccounts, skins>>

\* validateTempFile: the hash probe hits; existingSkin.duplicate++ and save().
HashProbeHit(r) ==
    /\ req[r].pc = "validate"
    /\ \E i \in findDuplicateFromImageHash(imageHash(req[r].pixels), req[r].options) :
          req' = [req EXCEPT ![r] = [@ EXCEPT !.pc = "saveDuplicate",
                                              !.hash = imageHash(req[r].pixels),
                                              !.duplicate = [skins[i] EXCEPT !.duplicate = @ + 1]]]
    /\ UNCHANGED <<now, ticks, accounts, lockedAccounts, skins>>

\* A save of the duplicate that also stores the type of the request that hit it.
SaveDuplicateWithType(r) ==
    /\ req[r].pc = "saveDuplicate"
    /\ skins' = [skins EXCEPT ![req[r].duplicate.id] =
                    [@ EXCEPT !.duplicate = req[r].duplicate.duplicate,
                              !.type = req[r].type]]
    /\ req' = [req EXCEPT ![r] = Finally([@ EXCEPT !.pc = "done",
                                                   !.skin = req[r].duplicate])]
    /\ UNCHANGED <<now, ticks, accounts, lockedAccounts>>

\* existingSkin.save() completes; the duplicate is returned to the caller.
SaveDuplicate(r) ==
    /\ req[r].pc = "saveDuplicate"
    /\ skins' = [skins EXCEPT ![req[r].duplicate.id].duplicate = req[r].duplicate.duplicate]
    /\ req' = [req EXCEPT ![r] = Finally([@ EXCEPT !.pc = "done",
                                                   !.skin = req[r].duplicate])]
    /\ UNCHANGED <<now, ticks, accounts, lockedAccounts>>

\* findUsable: the database answers the query.
FindOneAccount(r) ==
    /\ req[r].pc = "findOne"
    /\ \E a \in FindOneUsable(req[r].time, req[r].locked, req[r].server) :
          LET found == IF a = Unset THEN NoDoc ELSE accounts[a]
          IN  req' = [req EXCEPT ![r] = [@ EXCEPT !.pc = "selected", !.locked = {},
                                                  !.doc = found, !.saved = found,
                                                  !.auth.stored = TokensOf(found)]]
    /\ UNCHANGED <<now, ticks, accounts, lockedAccounts, skins>>

\* findUsable's callback without an account; getAndAuthenticateAccount throws
\* NO_ACCOUNT_AVAILABLE.
NoAccountAvailable(r) ==
    /\ req[r].pc = "selected"
    /\ req[r].doc.id = Unset
    /\ req' = [req EXCEPT ![r] = GeneratorError(Catch([@ EXCEPT !.time = Unset], "no_account_available"),
                                               DEFAULT_HTTP_CODE)]
    /\ UNCHANGED <<now, ticks, accounts, lockedAccounts, skins>>

\* findUsable's callback with an account: lock it, stamp it, save it.
LockSelected(r) ==
    /\ req[r].pc = "selected"
    /\ req[r].doc.id # Unset
    /\ lockedAccounts' = lockSelectedAccount(req[r].server, req[r].doc.id)
    /\ LET d == req[r].doc
           zero(x) == IF x = Unset \/ x = 0 THEN 0 ELSE x
       IN  req' = [req EXCEPT ![r] =
                     [@ EXCEPT !.pc = "saveSelected", !.time = Unset,
                               !.doc = [d EXCEPT !.lastSelected = req[r].time,
                                                 !.successCounter = zero(@),
                                                 !.errorCounter = zero(@),
                                                 !.totalSuccessCounter = zero(@),
                                                 !.totalErrorCounter = zero(@)]]]
    /\ UNCHANGED <<now, ticks, accounts, skins>>

\* account.save() of findUsable completes; the account is handed to
\* getAndAuthenticateAccount, which calls Authentication.authenticate.
AccountSaved(r) ==
    /\ req[r].pc = "saveSelected"
    /\ accounts' = [accounts EXCEPT ![req[r].doc.id] = SaveDoc(@, req[r].doc, req[r].saved)]
    /\ req' = [req EXCEPT ![r] = [@ EXCEPT !.pc = "authenticate", !.saved = req[r].doc,
                                           !.lease = req[r].doc]]
    /\ UNCHANGED <<now, ticks, lockedAccounts, skins>>

\* Authentication.authenticate returns the account; the upstream skin change
\* is requested with the header account.authenticationHeader(), the access
\* token of the document authenticate called back with.
Authenticated(r) ==
    /\ req[r].pc = "authenticate"
    /\ req' = [req EXCEPT ![r] =
                 [@ EXCEPT !.pc = "changeSkin", !.account = TRUE,
                           !.upstream = @ \cup {"skins"},
                           !.bearer = req[r].auth.account.accessToken,
                           !.doc = updateRequestServer([@ EXCEPT !.lastUsed = now],
                                                       req[r].server)]]
    /\ UNCHANGED <<now, ticks, accounts, lockedAccounts, skins>>

\* Authentication.authenticate throws an AuthenticationError.
AuthenticationFailed(r) ==
    /\ req[r].pc = "authenticate"
    /\ req' = [req EXCEPT ![r] = Catch(@, "authentication")]
    /\ UNCHANGED <<now, ticks, accounts, lockedAccounts, skins>>

\* POST /minecraft/profile/skins succeeds; getSkinData is called.
SkinChanged(r) ==
    /\ req[r].pc = "changeSkin"
    /\ req' = [req EXCEPT ![r] = [@ EXCEPT !.pc = "getSkinData"]]
    /\ UNCHANGED <<now, ticks, accounts, lockedAccounts, skins>>

\* POST /minecraft/profile/skins fails: with an error response
\* (SKIN_CHANGE_FAILED) or without one (the request error is rethrown).
SkinChangeFailed(r, response) ==
    /\ req[r].pc = "changeSkin"
    /\ req' = [req EXCEPT ![r] =
                 IF response THEN GeneratorError(Catch(@, "skin_change_failed"), 500)
                 ELSE Catch(@, "request_error")]
    /\ UNCHANGED <<now, ticks, accounts, lockedAccounts, skins>>

\* getSkinData answers; ok: getMojangHash is called; else INVALID_SKIN_DATA.
GetSkinData(r, ok) ==
    /\ req[r].pc = "getSkinData"
    /\ req' = [req EXCEPT ![r] =
                 IF ok THEN [@ EXCEPT !.pc = "getMojangHash"]
                 ELSE GeneratorError(Catch(@, "invalid_skin_data"), 500)]
    /\ UNCHANGED <<now, ticks, accounts, lockedAccounts, skins>>

\* getMojangHash answers; ok: handleGenerateSuccess changes the account and
\* saves it; else the download error is thrown.
GetMojangHash(r, ok) ==
    /\ req[r].pc = "getMojangHash"
    /\ req' = [req EXCEPT ![r] =
                 IF ok THEN [MojangTemp(@) EXCEPT !.pc = "saveSuccess",
                                                  !.doc = handleGenerateSuccess(@),
                                                  !.released = Append(@, "success"),
                                                  !.releasedAt = now]
                 ELSE Catch(MojangTemp(@), "download_error")]
    /\ UNCHANGED <<now, ticks, accounts, lockedAccounts, skins>>

\* account.save() of handleGenerateError completes; the error is rethrown.
SaveError(r) ==
    /\ req[r].pc = "saveError"
    /\ accounts' = [accounts EXCEPT ![req[r].doc.id] = SaveDoc(@, req[r].doc, req[r].saved)]
    /\ req' = [req EXCEPT ![r] = Finally([@ EXCEPT !.pc = "done",
                                                   !.saved = req[r].doc])]
    /\ UNCHANGED <<now, ticks, lockedAccounts, skins>>

\* account.save() of handleGenerateSuccess completes; generateFromUrl returns
\* its result and getDuplicateOrSaved -> saveSkin -> makeNewSkinId starts.
SaveSuccess(r) ==
    /\ req[r].pc = "saveSuccess"
    /\ accounts' = [accounts EXCEPT ![req[r].doc.id] = SaveDoc(@, req[r].doc, req[r].saved)]
    /\ req' = [req EXCEPT ![r] = Finally([@ EXCEPT !.pc = "newId",
                                                   !.saved = req[r].doc,
                                                   !.tryN = 0])]
    /\ UNCHANGED <<now, ticks, lockedAccounts, skins>>

\* makeRandomSkinId(tryN): draw, encode, look the id up; recurse on a hit.
makeRandomSkinId(r, rand) ==
    /\ req[r].pc = "newId"
    /\ LET newId == encode(rand)
           existing == skins[newId].id # Unset
       IN  req' = [req EXCEPT ![r] =
                     IF ~existing
                     THEN [@ EXCEPT !.pc = "insertSkin", !.newId = newId]
                     ELSE IF req[r].tryN + 1 > MAX_ID_TRIES
                     THEN GeneratorError([@ EXCEPT !.pc = "done",
                                                   !.error = "failed_to_create_id",
                                                   !.tryN = @ + 1], DEFAULT_HTTP_CODE)
                     ELSE [@ EXCEPT !.tryN = @ + 1]]
    /\ UNCHANGED <<now, ticks, accounts, lockedAccounts, skins>>

\* The skin document saveSkin builds.
\* uuid is the user's uuid or a fresh random one; texture is the upstream
\* texture hash, which the upstream derives from the pixel content.
NewSkin(q) ==
    [id |-> q.newId, hash |-> q.hash,
     uuid |-> IF q.type = "user" THEN q.uuid ELSE "random",
     texture |-> q.pixels, name |-> q.options.name,
     model |-> q.options.model, visibility |-> q.options.visibility,
     account |-> q.doc.id, type |-> q.type, duplicate |-> 0]

\* skin.save(): the insert, refused by the unique index on id when the id is taken.
saveSkin(r) ==
    /\ req[r].pc = "insertSkin"
    /\ IF skins[req[r].newId].id # Unset
       THEN /\ req' = [req EXCEPT ![r] = [@ EXCEPT !.pc = "done", !.error = "duplicate_key"]]
            /\ UNCHANGED skins
       ELSE /\ skins' = [skins EXCEPT ![req[r].newId] = NewSkin(req[r])]
            /\ req' = [req EXCEPT ![r] = [@ EXCEPT !.pc = "done", !.skin = NewSkin(req[r])]]
    /\ UNCHANGED <<now, ticks, accounts, lockedAccounts>>

\* Time passes.
Tick(d) ==
    /\ ticks < MaxTicks
    /\ now' = now + d
    /\ ticks' = ticks + 1
    /\ UNCHANGED <<accounts, lockedAccounts, skins, req>>

\* The steps of a request after its start.
\* The steps of a request but for the outcome of Authentication.authenticate.
PipelineStep(r) ==
    \/ HashProbeMiss(r)
    \/ HashProbeHit(r)
    \/ SaveDuplicate(r)
    \/ FindOneAccount(r)
    \/ NoAccountAvailable(r)
    \/ LockSelected(r)
    \/ AccountSaved(r)
    \/ SkinChanged(r)
    \/ \E response \in BOOLEAN : SkinChangeFailed(r, response)
    \/ \E ok \in BOOLEAN : GetSkinData(r, ok)
    \/ \E ok \in BOOLEAN : GetMojangHash(r, ok)
    \/ SaveError(r)
    \/ SaveSuccess(r)
    \/ \E rand \in SkinIds : makeRandomSkinId(r, rand)
    \/ saveSkin(r)

Step(r) ==
    \/ PipelineStep(r)
    \/ Authenticated(r)
    \/ AuthenticationFailed(r)

(***************************************************************************)
(* Spec: the account scheduler under concurrent requests on two serving    *)
(* processes, with time passing.  The requests carry one of two inputs.    *)
(***************************************************************************)
SchedulerInputs ==
    {[type |-> "upload", pixels |-> 1,
      options |-> [name |-> "steve", model |-> "steve", visibility |-> 0]],
     [type |-> "url", pixels |-> 1,
      options |-> [name |-> "alex", model |-> "steve", visibility |-> 0]]}

Next ==
    \/ \E r \in Reqs, s \in Servers, i \in SchedulerInputs : Generate(r, s, i)
    \/ \E r \in Reqs : Step(r)
    \/ \E d \in TickSteps : Tick(d)

Spec == Init /\ [][Next]_vars

(***************************************************************************)
(* SpecDup: duplicate detection over every combination of pixels, name,    *)
(* model and visibility, on one serving process with one usable account.   *)
(***************************************************************************)
DupInputs ==
    [type : GenerateTypes, pixels : Pixels,
     options : [name : Names, model : {"steve", "slim"}, visibility : Visibilities]]

InitDup ==
    /\ Init
    /\ accounts = [a \in AccountIds |-> CatalogAccount("single", a)]

NextDup ==
    \/ \E r \in Reqs, i \in DupInputs : Generate(r, "s1", i)
    \/ \E r \in Reqs : Step(r)

SpecDup == InitDup /\ [][NextDup]_vars

(***************************************************************************)
(* SpecStages: one request from any of the three entry points through      *)
(* every stage, over a catalog that holds a skin of an earlier request.    *)
(***************************************************************************)
Users == {"u1", "u2"}

AllAlpha(a) == [p \in Rect |-> a]
OneAlpha(p0, a) == [p \in Rect |-> IF p = p0 THEN a ELSE OPAQUE]

StageAlphas == {AllAlpha(OPAQUE), AllAlpha(0), OneAlpha(<<SCAN_X, SCAN_Y>>, 128)}

StageBuffers ==
    [len : {99, 100, 20000, 20001}, mime : {"image/png", "image/jpeg", ""},
     width : {64, 32}, height : {64, 32, 16}, alpha : StageAlphas, pixels : Pixels]

StageOptions == [name : Names, model : SkinModels, visibility : {0}]

StageUrls ==
    {[host |-> "imgur.com", dir |-> "", id |-> Unset],
     [host |-> "api.mineskin.org", dir |-> "skin", id |-> 0],
     [host |-> "minesk.in", dir |-> "", id |-> 0],
     [host |-> "textures.minecraft.net", dir |-> "texture", id |-> 1]}

\* What the HEAD request of followUrl may be answered with.
StageResponses ==
    [responseUrl : StageUrls \cup {NoUrl}, contentType : {"image/png", "text/html"},
     contentLength : {Unset, 99, 100, 20001}]

\* The skin saveSkin stored for an earlier request.
EarlierSkin(id, type, uuid, pixels, options, account) ==
    NewSkin([IdleReq EXCEPT !.newId = id, !.hash = imageHash(pixels), !.type = type,
                            !.uuid = uuid, !.pixels = pixels, !.options = options,
                            !.doc = [NoDoc EXCEPT !.id = account]])

StageCatalogs == {"empty", "upload", "user"}

StageSkins(c) ==
    LET options == [name |-> "steve", model |-> "steve", visibility |-> 0]
    IN  [i \in SkinIds |->
           IF i = 0 /\ c = "upload"
           THEN EarlierSkin(0, "upload", "", 1, options, NumAccounts)
           ELSE IF i = 0 /\ c = "user"
           THEN EarlierSkin(0, "user", "u1", 1, options, Unset)
           ELSE NoSkin]

InitStages ==
    /\ now = T0
    /\ ticks = 0
    /\ \E c \in {"pool", "cooldown"} :
          accounts = [a \in AccountIds |-> CatalogAccount(c, a)]
    /\ lockedAccounts = [s \in Servers |-> {}]
    /\ \E c \in StageCatalogs : skins = StageSkins(c)
    /\ req = [r \in Reqs |-> IdleReq]

\* The steps of a request before validateTempFile's hash probe.
StageStep(r) ==
    \/ \E response \in StageResponses \cup {NoResponse} : FollowUrl(r, response)
    \/ UrlProbeHit(r)
    \/ UrlProbeMiss(r)
    \/ \E buffer \in StageBuffers \cup {NoBuffer} : Download(r, buffer)
    \/ \E buffer \in StageBuffers \cup {NoBuffer} : CopyUploadedImage(r, buffer)
    \/ ValidateTempFile(r)
    \/ UuidProbeHit(r)
    \/ UuidProbeMiss(r)
    \/ \E ok \in BOOLEAN : UserSkinData(r, ok)
    \/ \E ok \in BOOLEAN : UserMojangHash(r, ok)

NextStages ==
    \/ \E url \in StageUrls, options \in StageOptions :
          GenerateFromUrl(1, "s1", [url |-> url, options |-> options])
    \/ \E options \in StageOptions :
          GenerateFromUpload(1, "s1", [options |-> options])
    \/ \E uuid \in Users, pixels \in Pixels, options \in StageOptions :
          GenerateFromUser(1, "s1", [uuid |-> uuid, pixels |-> pixels,
                                     options |-> options])
    \/ StageStep(1)
    \/ Step(1)

SpecStages == InitStages /\ [][NextStages]_vars

(***************************************************************************)
(* SpecAuth: calls of authenticate(account, cb) of                         *)
(* generator/authentication.js on one account, one after the other, with   *)
(* every answer the authentication server may give to the validate,        *)
(* refresh and login requests.                                             *)
(***************************************************************************)
MaxCalls == 2

AccessTokens == {"a1", "a2"}
ClientTokens == {"c1"}
StatusCodes == {199, 200, 204, 230, 231, 250, 299, 300, 401, 403}

\* uuid(): a value never returned before.
Uuids == <<"uuid1", "uuid2", "uuid3", "uuid4">>
uuid(n) == Uuids[n]

\* statusCode >= 200 && statusCode <= 299
Is2xx(statusCode) == statusCode >= 200 /\ statusCode <= 299

\* The token pairs an account record may hold.
StoredTokens == [clientToken : ClientTokens \cup {""}, accessToken : AccessTokens \cup {""}]

\* The answers to the validate request: an error of the request itself has
\* no response and no body.
ValidateResponses ==
    {v \in [err : BOOLEAN, statusCode : StatusCodes \cup {Unset}, error : BOOLEAN,
            accessToken : {""}] :
        IF v.err THEN v.statusCode = Unset /\ ~v.error ELSE v.statusCode # Unset}

\* The answers to the refresh and login requests: the body carries an access
\* token exactly when the status is 2xx and the body reports no error.
TokenResponses ==
    {v \in [err : BOOLEAN, statusCode : StatusCodes \cup {Unset}, error : BOOLEAN,
            accessToken : AccessTokens \cup {""}] :
        IF v.err THEN v.statusCode = Unset /\ ~v.error /\ v.accessToken = ""
        ELSE /\ v.statusCode # Unset
             /\ v.accessToken # "" <=> (Is2xx(v.statusCode) /\ ~v.error)}

\* The authentication server answers validate with 2xx and no error only for
\* a pair it accepts.
ValidateAnswer(a, response) ==
    (~response.err /\ Is2xx(response.statusCode) /\ ~response.error)
        => a.account \in a.valid

\* The authentication server issues a token: the pair of that token and the
\* client token of the request is the one it accepts from then on.
Issue(a, response) ==
    IF response.accessToken = "" THEN a
    ELSE [a EXCEPT !.valid = {[clientToken |-> a.account.clientToken,
                               accessToken |-> response.accessToken]}]

\* request(...): the request is posted with the document's client token.
Post(a, name) ==
    [a EXCEPT !.sent = Append(@, name),
              !.clientTokens = Append(@, a.account.clientToken),
              !.pc = name]

\* account.save() of a call made for a request's account: the tokens the
\* call has changed are written over the account record.
SaveTokens(r) ==
    LET a == req[r].auth
        id == req[r].doc.id
    IN  IF id = Unset THEN accounts
        ELSE [accounts EXCEPT
                 ![id].clientToken = IF a.account.clientToken # a.stored.clientToken
                                     THEN a.account.clientToken ELSE @,
                 ![id].accessToken = IF a.account.accessToken # a.stored.accessToken
                                     THEN a.account.accessToken ELSE @]

\* loginCallback(account): the client token is created when it is missing and
\* the login request is posted.
loginCallback(a) ==
    Post([a EXCEPT !.account.clientToken = IF @ = "" THEN uuid(a.calls) ELSE @],
         "login")

\* refresh(): the refresh request is posted.
refresh(a) == Post(a, "refresh")

\* authenticate(account, cb), with the account document read from the
\* record: with both tokens the validate request is posted, else
\* loginCallback(account) is called.
authenticate(r) ==
    /\ req[r].auth.pc \in {"idle", "done"}
    /\ req[r].auth.calls < MaxCalls
    /\ LET tokens == req[r].auth.stored
           a == [req[r].auth EXCEPT !.account = tokens, !.before = tokens,
                                    !.validate = NoAuthResponse,
                                    !.refresh = NoAuthResponse,
                                    !.login = NoAuthResponse,
                                    !.sent = <<>>, !.cb = "none",
                                    !.calls = @ + 1]
       IN  req' = [req EXCEPT ![r].auth =
                     IF tokens.clientToken # "" /\ tokens.accessToken # ""
                     THEN Post(a, "validate")
                     ELSE loginCallback(a)]
    /\ UNCHANGED <<now, ticks, accounts, lockedAccounts, skins>>

\* The callback of the validate request:
\* err || statusCode < 200 || statusCode > 230 || (body && body.error)
\* calls refresh(), else cb(null, account).
validateCallback(r, response) ==
    /\ req[r].auth.pc = "validate"
    /\ ValidateAnswer(req[r].auth, response)
    /\ LET a == [req[r].auth EXCEPT !.validate = response]
       IN  req' = [req EXCEPT ![r].auth =
                     IF \/ response.err
                        \/ response.statusCode < 200
                        \/ response.statusCode > 230
                        \/ response.error
                     THEN refresh(a)
                     ELSE [a EXCEPT !.cb = "account", !.pc = "done"]]
    /\ UNCHANGED <<now, ticks, accounts, lockedAccounts, skins>>

\* The callback of the refresh request: on err || body.error the access token
\* is cleared, else it is replaced by body.accessToken; account.save() is
\* called.
refreshCallback(r, response) ==
    /\ req[r].auth.pc = "refresh"
    /\ LET a == [Issue(req[r].auth, response) EXCEPT !.refresh = response]
       IN  req' = [req EXCEPT ![r].auth =
                     IF response.err \/ response.error
                     THEN [a EXCEPT !.account.accessToken = "", !.pc = "saveCleared"]
                     ELSE [a EXCEPT !.account.accessToken = response.accessToken,
                                    !.pc = "saveRefreshed"]]
    /\ UNCHANGED <<now, ticks, accounts, lockedAccounts, skins>>

\* account.save() after a failed refresh completes: loginCallback(account).
clearedSaved(r) ==
    /\ req[r].auth.pc = "saveCleared"
    /\ req' = [req EXCEPT ![r].auth =
                 loginCallback([@ EXCEPT !.stored = req[r].auth.account])]
    /\ accounts' = SaveTokens(r)
    /\ UNCHANGED <<now, ticks, lockedAccounts, skins>>

\* account.save() after a refresh or a login completes: cb(null, account).
tokenSaved(r) ==
    /\ req[r].auth.pc \in {"saveRefreshed", "saveLogin"}
    /\ req' = [req EXCEPT ![r].auth = [@ EXCEPT !.stored = req[r].auth.account,
                                                !.cb = "account", !.pc = "done"]]
    /\ accounts' = SaveTokens(r)
    /\ UNCHANGED <<now, ticks, lockedAccounts, skins>>

\* The callback of the login request: on err || body.error cb(err || body,
\* null), else the access token is replaced by body.accessToken and
\* account.save() is called.
loginResponse(r, response) ==
    /\ req[r].auth.pc = "login"
    /\ LET a == [Issue(req[r].auth, response) EXCEPT !.login = response]
       IN  req' = [req EXCEPT ![r].auth =
                     IF response.err \/ response.error
                     THEN [a EXCEPT !.cb = "error", !.pc = "done"]
                     ELSE [a EXCEPT !.account.accessToken = response.accessToken,
                                    !.pc = "saveLogin"]]
    /\ UNCHANGED <<now, ticks, accounts, lockedAccounts, skins>>

\* The account record holds any tokens; the server accepts the pair it holds
\* or, the access token being stale, none.
InitAuth ==
    /\ now = T0
    /\ ticks = 0
    /\ accounts = [a \in AccountIds |-> CatalogAccount("pool", a)]
    /\ lockedAccounts = [s \in Servers |-> {}]
    /\ skins = [i \in SkinIds |-> NoSkin]
    /\ \E tokens \in StoredTokens, accepted \in BOOLEAN :
          /\ accepted => (tokens.clientToken # "" /\ tokens.accessToken # "")
          /\ req = [r \in Reqs |->
                      IF r = 1
                      THEN [IdleReq EXCEPT !.auth.stored = tokens,
                                           !.auth.valid = IF accepted THEN {tokens} ELSE {}]
                      ELSE IdleReq]

NextAuth ==
    \/ authenticate(1)
    \/ \E response \in ValidateResponses : validateCallback(1, response)
    \/ \E response \in TokenResponses : refreshCallback(1, response)
    \/ clearedSaved(1)
    \/ tokenSaved(1)
    \/ \E response \in TokenResponses : loginResponse(1, response)

SpecAuth == InitAuth /\ [][NextAuth]_vars

(***************************************************************************)
(* SpecChallenges: one call of completeChallenges(account, cb) of          *)
(* generator/authentication.js, with every answer the security endpoints   *)
(* may give.                                                               *)
(***************************************************************************)
MaxQuestions == 2

QuestionIds == 1..MaxQuestions

\* The question lists the challenges endpoint may answer with.
QuestionLists ==
    {<<>>} \cup {<<q>> : q \in QuestionIds}
           \cup {<<p, q>> : p, q \in QuestionIds}

ChallengeResponses ==
    {v \in [err : BOOLEAN, statusCode : StatusCodes \cup {Unset},
            questions : QuestionLists \cup {NotAList}] :
        IF v.err THEN v.statusCode = Unset /\ v.questions = <<>>
        ELSE v.statusCode # Unset}

\* The answers to the location requests carry no list.
LocationResponses == {v \in ChallengeResponses : v.questions = <<>>}

\* request(...) of completeChallenges.
Request(c, name) == [c EXCEPT !.sent = Append(@, name), !.pc = name]

\* completeChallenges(account, cb): without a stored answer cb(account);
\* else GET the challenge location.
completeChallenges(r, security) ==
    /\ req[r].challenges.pc = "idle"
    /\ LET c == [req[r].challenges EXCEPT !.security = security]
       IN  req' = [req EXCEPT ![r].challenges =
                     IF security = ""
                     THEN [c EXCEPT !.cb = "account", !.pc = "done"]
                     ELSE Request(c, "GET location")]
    /\ UNCHANGED <<now, ticks, accounts, lockedAccounts, skins>>

\* The callback of GET location: if (err) return; a status outside 200..230
\* (or no response) fetches the questions, else cb(account).
locationCallback(r, response) ==
    /\ req[r].challenges.pc = "GET location"
    /\ LET c == [req[r].challenges EXCEPT !.location = response]
       IN  req' = [req EXCEPT ![r].challenges =
                     IF response.err THEN [c EXCEPT !.pc = "done"]
                     ELSE IF response.statusCode < 200 \/ response.statusCode > 230
                     THEN Request(c, "GET challenges")
                     ELSE [c EXCEPT !.cb = "account", !.pc = "done"]]
    /\ UNCHANGED <<now, ticks, accounts, lockedAccounts, skins>>

\* The callback of GET challenges: if (err) return; the body is parsed, an
\* answer {id, answer: account.security} is pushed for each question and the
\* array is posted.  questions.forEach throws when the body is no list.
challengesCallback(r, response) ==
    /\ req[r].challenges.pc = "GET challenges"
    /\ LET c == [req[r].challenges EXCEPT !.list = response]
           questions == response.questions
           answers == [i \in 1..Len(questions) |->
                          [id |-> questions[i], answer |-> c.security]]
       IN  req' = [req EXCEPT ![r].challenges =
                     IF response.err \/ questions = NotAList
                     THEN [c EXCEPT !.pc = "done"]
                     ELSE [Request(c, "POST location") EXCEPT !.answers = answers]]
    /\ UNCHANGED <<now, ticks, accounts, lockedAccounts, skins>>

\* The callback of POST location: if (err) return; a status in 200..299 is
\* cb(account), any other cb().
postCallback(r, response) ==
    /\ req[r].challenges.pc = "POST location"
    /\ LET c == [req[r].challenges EXCEPT !.post = response]
       IN  req' = [req EXCEPT ![r].challenges =
                     IF response.err THEN [c EXCEPT !.pc = "done"]
                     ELSE IF response.statusCode >= 200 /\ response.statusCode < 300
                     THEN [c EXCEPT !.cb = "account", !.pc = "done"]
                     ELSE [c EXCEPT !.cb = "error", !.pc = "done"]]
    /\ UNCHANGED <<now, ticks, accounts, lockedAccounts, skins>>

NextChallenges ==
    \/ \E security \in {"", "answer"} : completeChallenges(1, security)
    \/ \E response \in LocationResponses : locationCallback(1, response)
    \/ \E response \in ChallengeResponses : challengesCallback(1, response)
    \/ \E response \in LocationResponses : postCallback(1, response)

SpecChallenges == Init /\ [][NextChallenges]_vars

\* The request library invokes the callback of every request it was given,
\* with a response or with an error.
LiveChallenges == SpecChallenges /\ WF_vars(NextChallenges)

(***************************************************************************)
(* SpecBearer: the requests of one serving process with authenticate run   *)
(* on the account each has acquired; the accounts hold a stale access      *)
(* token, which the authentication server refuses.                         *)
(***************************************************************************)
StaleTokens == [clientToken |-> "c1", accessToken |-> "a1"]

BearerInput ==
    [type |-> "upload", pixels |-> 1,
     options |-> [name |-> "steve", model |-> "steve", visibility |-> 0]]

\* validate is refused with 401; refresh and login fail or answer 200 with a
\* new token.
BearerValidateResponses ==
    {v \in ValidateResponses : v.statusCode = 401}

BearerTokenResponses ==
    {v \in TokenResponses : v.err \/ (v.statusCode = 200 /\ v.accessToken = "a2")}

InitBearer ==
    /\ now = T0
    /\ ticks = 0
    /\ accounts = [a \in AccountIds |->
                     [CatalogAccount("single", a) EXCEPT
                         !.clientToken = StaleTokens.clientToken,
                         !.accessToken = StaleTokens.accessToken]]
    /\ lockedAccounts = [s \in Servers |-> {}]
    /\ skins = [i \in SkinIds |-> NoSkin]
    /\ req = [r \in Reqs |-> IdleReq]

\* getAndAuthenticateAccount calls authenticate with the account it found.
StartAuthenticate(r) ==
    /\ req[r].pc = "authenticate"
    /\ req[r].auth.pc = "idle"
    /\ authenticate(r)

\* authenticate has called back: with the account, or with an error.
AuthenticateDone(r) ==
    /\ req[r].auth.pc = "done"
    /\ \/ req[r].auth.cb = "account" /\ Authenticated(r)
       \/ req[r].auth.cb = "error" /\ AuthenticationFailed(r)

NextBearer ==
    \/ \E r \in Reqs : Generate(r, "s1", BearerInput)
    \/ \E r \in Reqs : PipelineStep(r)
    \/ \E r \in Reqs : StartAuthenticate(r)
    \/ \E r \in Reqs, response \in BearerValidateResponses : validateCallback(r, response)
    \/ \E r \in Reqs, response \in BearerTokenResponses : refreshCallback(r, response)
    \/ \E r \in Reqs : clearedSaved(r)
    \/ \E r \in Reqs : tokenSaved(r)
    \/ \E r \in Reqs, response \in BearerTokenResponses : loginResponse(r, response)
    \/ \E r \in Reqs : AuthenticateDone(r)

SpecBearer == InitBearer /\ [][NextBearer]_vars

(***************************************************************************)
(* SpecAcquire: one request up to the acquisition of its account, over     *)
(* every combination of the fields the query sorts by.                     *)
(***************************************************************************)
\* An account past every cooldown, or disabled, with the sort fields missing
\* or set to one of two values.
AcquireAccounts(a) ==
    {[FreshAccount(a) EXCEPT !.enabled = e, !.lastUsed = u, !.lastSelected = l,
                             !.sameTextureCounter = c] :
        e \in BOOLEAN,
        u \in {Unset, T0 - USED_COOLDOWN - 2, T0 - USED_COOLDOWN - 1},
        l \in {Unset, T0 - SELECTED_COOLDOWN - 2, T0 - SELECTED_COOLDOWN - 1},
        c \in {0, 1}}

InitAcquire ==
    /\ now = T0
    /\ ticks = 0
    /\ accounts \in [AccountIds -> UNION {AcquireAccounts(a) : a \in AccountIds}]
    /\ \A a \in AccountIds : accounts[a].id = a
    /\ lockedAccounts = [s \in Servers |-> {}]
    /\ skins = [i \in SkinIds |-> NoSkin]
    /\ req = [r \in Reqs |-> IdleReq]

NextAcquire ==
    \/ Generate(1, "s1", BearerInput)
    \/ HashProbeMiss(1)
    \/ FindOneAccount(1)
    \/ NoAccountAvailable(1)
    \/ LockSelected(1)
    \/ AccountSaved(1)

SpecAcquire == InitAcquire /\ [][NextAcquire]_vars

(***************************************************************************)
(* SpecDelay: calculateDelay over every combination of enabled and          *)
(* errorCounter of the accounts.                                           *)
(***************************************************************************)
\* The values MIN_ACCOUNT_DELAY may be configured to, in seconds.
MinAccountDelays == {1, 30, 200}

\* The delay returned when no account is usable.
NO_USABLE_DELAY == 200

\* Math.round(a / b) for a >= 0 and b > 0: halves round up.
Round(a, b) == (2 * a + b) \div (2 * b)

Max(a, b) == IF a >= b THEN a ELSE b

\* countDocuments({enabled: true, errorCounter: {$lt: errorThreshold}})
countGlobalUsable ==
    Cardinality({a \in AccountIds :
                    /\ accounts[a].enabled
                    /\ accounts[a].errorCounter # Unset
                    /\ accounts[a].errorCounter < ERROR_THRESHOLD})

DelayAccounts(a) ==
    {[FreshAccount(a) EXCEPT !.enabled = e, !.errorCounter = c] :
        e \in BOOLEAN,
        c \in {Unset, 0, ERROR_THRESHOLD - 1, ERROR_THRESHOLD, ERROR_THRESHOLD + 1}}

InitDelay ==
    /\ now = T0
    /\ ticks = 0
    /\ accounts \in [AccountIds -> UNION {DelayAccounts(a) : a \in AccountIds}]
    /\ \A a \in AccountIds : accounts[a].id = a
    /\ lockedAccounts = [s \in Servers |-> {}]
    /\ skins = [i \in SkinIds |-> NoSkin]
    /\ req = [r \in Reqs |-> IdleReq]

\* calculateDelay issues the count of the usable accounts.
calculateDelay(r) ==
    /\ req[r].delay.pc = "idle"
    /\ req' = [req EXCEPT ![r].delay = [@ EXCEPT !.pc = "count",
                                                 !.usable = countGlobalUsable]]
    /\ UNCHANGED <<now, ticks, accounts, lockedAccounts, skins>>

\* The then-callback of the count.
delayCallback(r, minAccountDelay) ==
    /\ req[r].delay.pc = "count"
    /\ LET usable == req[r].delay.usable
       IN  req' = [req EXCEPT ![r].delay =
                     [@ EXCEPT !.pc = "done", !.min = minAccountDelay,
                               !.hint = IF usable <= 0
                                        THEN NO_USABLE_DELAY
                                        ELSE Round(minAccountDelay, Max(1, usable))]]
    /\ UNCHANGED <<now, ticks, accounts, lockedAccounts, skins>>

NextDelay ==
    \/ \E r \in Reqs : calculateDelay(r)
    \/ \E r \in Reqs, d \in MinAccountDelays : delayCallback(r, d)

SpecDelay == InitDelay /\ [][NextDelay]_vars

(***************************************************************************)
(* SpecHits: uploads of the image of a stored skin to either serving       *)
(* process, each a duplicate hit on its record; a process takes further    *)
(* calls after a call ends.                                                *)
(***************************************************************************)
MaxHits == 2

InitHits ==
    /\ now = T0
    /\ ticks = 0
    /\ accounts = [a \in AccountIds |-> CatalogAccount("single", a)]
    /\ lockedAccounts = [s \in Servers |-> {}]
    /\ skins = StageSkins("upload")
    /\ req = [r \in Reqs |-> IdleReq]

\* The call has returned; the serving process takes another one.
AnotherCall(r) ==
    /\ req[r].pc = "done"
    /\ \A i \in SkinIds : skins[i].duplicate < MaxHits
    /\ req' = [req EXCEPT ![r] = IdleReq]
    /\ UNCHANGED <<now, ticks, accounts, lockedAccounts, skins>>

NextHits ==
    \/ \E r \in Reqs, server \in Servers : Generate(r, server, BearerInput)
    \/ \E r \in Reqs : HashProbeHit(r)
    \/ \E r \in Reqs : SaveDuplicate(r)
    \/ \E r \in Reqs : AnotherCall(r)

SpecHits == InitHits /\ [][NextHits]_vars

(***************************************************************************)
(* Properties.                                                             *)
(***************************************************************************)
\* The request holds the account findUsable handed to it and has not ended.
Leased(r) ==
    req[r].pc \in {"authenticate", "changeSkin", "getSkinData", "getMojangHash",
                   "saveSuccess", "saveError"}

Ended(r) == req[r].pc = "done"

Acquired(r) == req[r].lease.id # Unset

\* C1: within one serving process no account id is leased to two requests at
\* the same time.
C1_NoDoubleLease ==
    \A r1, r2 \in Reqs :
        (r1 # r2 /\ req[r1].server = req[r2].server /\ Leased(r1) /\ Leased(r2))
            => req[r1].doc.id # req[r2].doc.id

\* C2: once a request that acquired an account has ended, the account's id is
\* not in the locked set of its serving process.
C2_LockReleasedAtEnd ==
    \A r \in Reqs :
        (Ended(r) /\ Acquired(r)) => req[r].lease.id \notin lockedAccounts[req[r].server]

\* C3: the account findUsable leases satisfies the eligibility predicate (on
\* the stored record, the current time and the locked set) when it is leased.
C3_EligibleAtLease ==
    [][\A r \in Reqs :
          LockSelected(r) =>
              MatchesUsable(accounts[req[r].doc.id], now,
                            lockedAccounts[req[r].server], req[r].server)]_vars

\* C4: no two requests on different serving processes are in the upstream
\* skin-change stage with the same account at the same time.
C4_OneStageDPerAccount ==
    \A r1, r2 \in Reqs :
        (r1 # r2 /\ req[r1].server # req[r2].server
           /\ req[r1].pc = "changeSkin" /\ req[r2].pc = "changeSkin")
            => req[r1].doc.id # req[r2].doc.id

\* C5: a request that acquired an account and ended with an error has applied
\* release-failure to it exactly once: errorCounter and totalErrorCounter one
\* higher than at acquire, successCounter 0.
C5_ErrorRunsReleaseFailure ==
    \A r \in Reqs :
        (Ended(r) /\ Acquired(r) /\ req[r].error # "none")
            => /\ req[r].released = <<"failure">>
               /\ req[r].doc.errorCounter = req[r].lease.errorCounter + 1
               /\ req[r].doc.totalErrorCounter = req[r].lease.totalErrorCounter + 1
               /\ req[r].doc.successCounter = 0

\* C6: when a request ends because authentication of its acquired account
\* failed, the account has been released with failure kind AUTH: the stored
\* forcedTimeoutAt is the time of the release, the stored requestServer is
\* cleared, errorCounter is one higher than at acquire and successCounter is 0.
C6_AuthFailureParksAccount ==
    [][\A r \in Reqs :
          (~Ended(r) /\ Ended(r)' /\ req'[r].error = "authentication")
              => /\ req'[r].released = <<"failure">>
                 /\ accounts'[req[r].lease.id].forcedTimeoutAt = req'[r].releasedAt
                 /\ accounts'[req[r].lease.id].requestServer = NoServer
                 /\ accounts'[req[r].lease.id].errorCounter
                        = req[r].lease.errorCounter + 1
                 /\ accounts'[req[r].lease.id].successCounter = 0]_vars

\* C7: when release-success of a novel generation is stored, the account's
\* stored errorCounter is 0, successCounter and totalSuccessCounter are one
\* higher than at acquire and lastUsed is the release time; the inserted skin's
\* account field is the account's id.
C7_SuccessReleaseState ==
    [][\A r \in Reqs :
          /\ SaveSuccess(r) =>
                /\ accounts'[req[r].doc.id].errorCounter = 0
                /\ accounts'[req[r].doc.id].successCounter = req[r].lease.successCounter + 1
                /\ accounts'[req[r].doc.id].totalSuccessCounter
                       = req[r].lease.totalSuccessCounter + 1
                /\ accounts'[req[r].doc.id].lastUsed = req[r].releasedAt
          /\ (saveSkin(r) /\ req'[r].error = "none") =>
                skins'[req[r].newId].account = req[r].lease.id]_vars

\* C8: when the upstream skin change answers non-2xx, the request ends with
\* SKIN_CHANGE_FAILED and release-failure; when the release is stored the
\* account's errorCounter is one higher than at acquire and its successCounter
\* is 0, no skin is inserted, and forcedTimeoutAt and requestServer are not
\* changed by the AUTH branch.
C8_SkinChangeFailure ==
    [][\A r \in Reqs :
          /\ SkinChangeFailed(r, TRUE) =>
                /\ req'[r].error = "skin_change_failed"
                /\ req'[r].released = <<"failure">>
                /\ req'[r].doc.forcedTimeoutAt = req[r].lease.forcedTimeoutAt
                /\ req'[r].doc.requestServer = req[r].server
          /\ (SaveError(r) /\ req[r].error = "skin_change_failed") =>
                /\ Ended(r)'
                /\ req'[r].skin = NoSkin
                /\ skins' = skins
                /\ accounts'[req[r].doc.id].errorCounter = req[r].lease.errorCounter + 1
                /\ accounts'[req[r].doc.id].successCounter = 0
                /\ accounts'[req[r].doc.id].forcedTimeoutAt
                       = accounts[req[r].doc.id].forcedTimeoutAt]_vars

\* C9: when id allocation or the insert fails after the upstream change
\* succeeded, the account has been released with failure and never with success.
C9_InsertFailureReleasesFailure ==
    \A r \in Reqs :
        (Ended(r) /\ req[r].error \in {"failed_to_create_id", "duplicate_key"})
            => req[r].released = <<"failure">>

\* C10: of two attempts with identical pixels and identical name, model and
\* visibility, the second started after the first ended with a new skin, the
\* second inserts nothing: its hash probe hits and it returns the first
\* attempt's record with duplicate increased by 1.
C10_SecondAttemptIsDuplicate ==
    \A r1, r2 \in Reqs :
        (/\ r1 \in req[r2].after
         /\ req[r1].error = "none" /\ req[r1].released = <<"success">>
         /\ req[r2].pixels = req[r1].pixels
         /\ req[r2].options = req[r1].options
         /\ req[r2].pc # "validate")
            => /\ req[r2].pc \in {"saveDuplicate", "done"}
               /\ req[r2].duplicate.id = req[r1].skin.id
               /\ req[r2].duplicate.duplicate = req[r1].skin.duplicate + 1
               /\ Ended(r2) => req[r2].skin = req[r2].duplicate

\* A duplicate probe of the request hits.
ProbeHit(r) == UrlProbeHit(r) \/ UuidProbeHit(r) \/ HashProbeHit(r)

StoredIds == {i \in SkinIds : skins[i].id # Unset}

\* C11: when a duplicate probe (source url, user uuid, image hash) hits, the
\* request holds the record it found with duplicate increased by exactly 1,
\* stores that count and returns that record without an error; from the hit
\* to its end it inserts no skin, makes no upstream skin-change call, acquires
\* no account and changes no account record and no locked set.
C11_DuplicateHitFrame ==
    [][\A r \in Reqs :
          /\ ProbeHit(r) =>
                /\ \E i \in StoredIds :
                      req'[r].duplicate = [skins[i] EXCEPT !.duplicate = @ + 1]
                /\ req'[r].pc = "saveDuplicate"
                /\ req[r].lease = NoDoc /\ ~req[r].account /\ req[r].upstream = {}
                /\ UNCHANGED <<accounts, lockedAccounts, skins>>
          /\ SaveDuplicate(r) =>
                /\ Ended(r)'
                /\ req'[r].error = "none"
                /\ req'[r].skin = req[r].duplicate
                /\ skins'[req[r].duplicate.id] = req[r].duplicate
                /\ \A i \in SkinIds : i # req[r].duplicate.id => skins'[i] = skins[i]
                /\ req'[r].lease = NoDoc /\ ~req'[r].account /\ req'[r].upstream = {}
                /\ UNCHANGED <<accounts, lockedAccounts>>]_vars

\* A request that ended on a hit of the source-url probe, before any download.
C11_Witness ==
    \E r \in Reqs :
        /\ Ended(r) /\ req[r].type = "url" /\ req[r].tempsUsed = {}
        /\ req[r].skin # NoSkin /\ req[r].skin.duplicate = 1
        /\ skins[req[r].skin.id] = req[r].skin

\* C12: of two uploads with identical pixels that differ in name, model or
\* visibility, the second started after the first ended with a new skin, the
\* second is not classified as a duplicate: its hash probe misses, and the
\* skin it ends with is a second record.
C12_DifferentOptionsNoDuplicate ==
    \A r1, r2 \in Reqs :
        (/\ r1 \in req[r2].after
         /\ req[r1].type = "upload" /\ req[r2].type = "upload"
         /\ req[r1].error = "none" /\ req[r1].released = <<"success">>
         /\ req[r2].pixels = req[r1].pixels
         /\ req[r2].options # req[r1].options
         /\ req[r2].pc # "validate")
            => /\ req[r2].duplicate = NoSkin
               /\ (Ended(r2) /\ req[r2].error = "none")
                     => (req[r2].skin # NoSkin /\ req[r2].skin.id # req[r1].skin.id)

\* The source url is a skin page of this service whose skin is stored with
\* the name, model and visibility the request asks for.
OwnSkinPage(r) ==
    /\ req[r].type = "url"
    /\ req[r].url.host = "api.mineskin.org" /\ req[r].url.dir = "skin"
    /\ req[r].url.id \in StoredIds
    /\ skins[req[r].url.id].name = req[r].options.name
    /\ skins[req[r].url.id].model = req[r].options.model
    /\ skins[req[r].url.id].visibility = req[r].options.visibility

\* C13: a url request whose url is https://api.mineskin.org/skin/<id>, with a
\* stored skin <id> of the requested name, model and visibility, ends with
\* that skin and duplicate + 1, without a download and without an account.
C13_OwnUrlIsDuplicate ==
    \A r \in Reqs :
        (OwnSkinPage(r) /\ Ended(r))
            => /\ req[r].error = "none"
               /\ req[r].skin.id = req[r].url.id
               /\ req[r].skin.duplicate = 1
               /\ req[r].tempsUsed = {}
               /\ req[r].lease = NoDoc

INVALID_IMAGE_ERRORS == {"invalid_image", "invalid_image_url"}

\* The account collections a request of SpecStages may find when it starts.
StageAccounts == {[a \in AccountIds |-> CatalogAccount(c, a)] : c \in {"pool", "cooldown"}}

\* C14: a request that failed with INVALID_IMAGE or INVALID_IMAGE_URL has
\* acquired no account and run no release handler; the account records and
\* the locked sets are the ones it found when it started, it made no upstream
\* call, and every temp file it created is released.
C14_ValidationFailureTouchesNothing ==
    \A r \in Reqs :
        req[r].error \in INVALID_IMAGE_ERRORS
            => /\ Ended(r)
               /\ req[r].lease = NoDoc /\ ~req[r].account
               /\ req[r].released = <<>>
               /\ req[r].upstream = {}
               /\ accounts \in StageAccounts
               /\ lockedAccounts = [s \in Servers |-> {}]
               /\ req[r].skin = NoSkin
               /\ req[r].temps = {}

\* A url request whose downloaded image is larger than MAX_IMAGE_SIZE ended
\* with INVALID_IMAGE after it had created its temp file.
C14_Witness ==
    \E r \in Reqs :
        /\ Ended(r) /\ req[r].error = "invalid_image"
        /\ req[r].type = "url" /\ req[r].buffer # NoBuffer
        /\ req[r].buffer.len > MAX_IMAGE_SIZE
        /\ req[r].tempsUsed = {URL_DIR} /\ req[r].temps = {}

\* C15: when a url or upload request has ended (new skin, duplicate hit, or
\* an error at any stage), no temp file it acquired is still held, the one
\* getMojangHash downloads the upstream texture to included; that one is
\* never held across a step.
C15_TempFilesReleased ==
    \A r \in Reqs :
        req[r].type \in {"url", "upload"}
            => /\ req[r].temps \subseteq req[r].tempsUsed
               /\ MOJ_DIR \notin req[r].temps
               /\ Ended(r) => req[r].temps = {}

\* A url request ended with a new skin after it had used a download file and
\* an upstream-texture file.
C15_Witness ==
    \E r \in Reqs :
        /\ Ended(r) /\ req[r].type = "url" /\ req[r].error = "none"
        /\ req[r].duplicate = NoSkin /\ req[r].skin # NoSkin
        /\ req[r].tempsUsed = {URL_DIR, MOJ_DIR}
        /\ req[r].temps = {}

\* C16: variant inference over a 64-wide image that passes validation, for a
\* request that left the model unknown: height 32 gives classic; height 64
\* gives classic exactly when all 24 pixels of the rectangle x in [54,56),
\* y in [20,32) have alpha 255, and slim when at least one has a lower alpha.
C16_VariantInference ==
    [][\A r \in Reqs :
          (/\ ValidateTempFile(r)
           /\ req[r].options.model = UNKNOWN
           /\ req'[r].pc = "validate")
              => /\ req[r].buffer.width = 64
                 /\ req[r].buffer.height = 32 => req'[r].options.model = CLASSIC
                 /\ req[r].buffer.height = 64 =>
                       req'[r].options.model =
                          IF \A p \in Rect : req[r].buffer.alpha[p] = OPAQUE
                          THEN CLASSIC ELSE SLIM]_vars

\* C17: validateTempFile lets the buffer through exactly when its length is
\* in 100..20000, its detected MIME type is image/png, its width is 64 and
\* its height is 32 or 64; every other buffer ends the request with
\* INVALID_IMAGE, before a hash probe and with no account acquired.
C17_ValidatorGuards ==
    [][\A r \in Reqs :
          ValidateTempFile(r) =>
             LET buffer == req[r].buffer
                 passes == /\ buffer.len >= 100 /\ buffer.len <= 20000
                           /\ buffer.mime = "image/png"
                           /\ buffer.width = 64
                           /\ buffer.height \in {32, 64}
             IN  IF passes
                 THEN req'[r].pc = "validate" /\ req'[r].error = "none"
                 ELSE /\ req'[r].error = "invalid_image"
                      /\ Ended(r)'
                      /\ req'[r].hash = NoHash
                      /\ req'[r].lease = NoDoc /\ ~req'[r].account
                      /\ UNCHANGED <<accounts, lockedAccounts, skins>>]_vars

\* C18: makeRandomSkinId checks at most MAX_ID_TRIES = 10 candidate ids.  A
\* candidate is drawn only after fewer than 10 collisions; the candidate that
\* is returned is absent from the catalog; FAILED_TO_CREATE_ID is thrown
\* after exactly 10 collisions, with no 11th candidate drawn.
C18_AtMostTenCandidates ==
    [][\A r \in Reqs :
          (req[r].pc = "newId" /\ req'[r] # req[r])
              => /\ req[r].tryN < MAX_ID_TRIES
                 /\ req'[r].pc = "insertSkin" => skins[req'[r].newId].id = Unset
                 /\ req'[r].error = "failed_to_create_id"
                       => req'[r].tryN = MAX_ID_TRIES]_vars

\* C19: two requests that both passed the id existence check with the same
\* candidate id do not lose a record: the catalog holds one skin per id, and
\* each of the two that has ended without a generation error has its own
\* skin stored, under ids that differ.
C19_IdRaceLoserRetries ==
    \A r1, r2 \in Reqs :
        (/\ r1 # r2
         /\ req[r1].newId # Unset /\ req[r1].newId = req[r2].newId
         /\ req[r1].pc = "done" /\ req[r2].pc \in {"insertSkin", "done"})
            => /\ \A i \in StoredIds : skins[i].id = i
               /\ req[r2].pc = "done"
                     => /\ req[r1].skin # NoSkin /\ req[r2].skin # NoSkin
                        /\ req[r1].skin.id # req[r2].skin.id
                        /\ skins[req[r1].skin.id].id = req[r1].skin.id
                        /\ skins[req[r2].skin.id].id = req[r2].skin.id

\* C20: when the account has an access token and the validate request is
\* answered with a 2xx status (200 to 299) and no error body, authenticate
\* calls back with the account, the access token is the one it was called
\* with, and neither a refresh nor a login request was posted.
C20_ValidTokenKept ==
    \A r \in Reqs :
        LET a == req[r].auth
        IN  (/\ a.before.accessToken # ""
             /\ a.validate.statusCode # Unset
             /\ ~a.validate.err /\ ~a.validate.error
             /\ Is2xx(a.validate.statusCode))
                => /\ a.sent = <<"validate">>
                   /\ a.pc = "done" /\ a.cb = "account"
                   /\ a.account.accessToken = a.before.accessToken
                   /\ a.stored = a.before

\* The request was answered (or failed); what the answer says.
Answered(response) == response.err \/ response.statusCode # Unset
Succeeded(response) ==
    ~response.err /\ Is2xx(response.statusCode) /\ ~response.error
Failed(response) == Answered(response) /\ ~Succeeded(response)

\* C21: when validate fails, refresh is the next request.  When refresh
\* succeeds, no login is posted and the stored access token is the one
\* refresh returned once the call has ended.  When refresh fails, the access
\* token is cleared in the record and the login request is posted after that.
C21_RefreshAfterValidate ==
    \A r \in Reqs :
        LET a == req[r].auth
        IN  /\ Failed(a.validate)
                => (Len(a.sent) >= 2 /\ a.sent[1] = "validate" /\ a.sent[2] = "refresh")
            /\ (Failed(a.validate) /\ Succeeded(a.refresh))
                => /\ a.sent = <<"validate", "refresh">>
                   /\ a.pc \in {"saveRefreshed", "done"}
                   /\ a.account.accessToken = a.refresh.accessToken
                   /\ a.pc = "done" => (a.cb = "account"
                                          /\ a.stored.accessToken = a.refresh.accessToken)
            /\ (Failed(a.validate) /\ Failed(a.refresh))
                => /\ a.pc = "saveCleared"
                        => (a.account.accessToken = "" /\ a.sent = <<"validate", "refresh">>)
                   /\ a.pc # "saveCleared" => a.sent = <<"validate", "refresh", "login">>
                   /\ a.pc = "login" => a.stored.accessToken = ""

\* The stale token of the account a request acquired was refused by validate
\* with 401 and refresh answered with a new token.
RefreshedAfter401(r) ==
    /\ req[r].auth.validate.statusCode = 401
    /\ Succeeded(req[r].auth.refresh)
    /\ req[r].auth.refresh.accessToken # req[r].auth.before.accessToken

\* C22: when validate refuses the acquired account's stale token with 401 and
\* refresh succeeds with a new token, the upstream skin-change request carries
\* the refreshed token as bearer and never the stale one, and when the
\* request's success is stored the account's errorCounter is 0.
C22_RefreshedBearer ==
    /\ [](\A r \in Reqs :
            (RefreshedAfter401(r) /\ "skins" \in req[r].upstream)
                => /\ req[r].bearer = req[r].auth.refresh.accessToken
                   /\ req[r].bearer # req[r].auth.before.accessToken)
    /\ [][\A r \in Reqs :
            (RefreshedAfter401(r) /\ SaveSuccess(r))
                => accounts'[req[r].doc.id].errorCounter = 0]_vars

\* C23: a call of authenticate reports an error only when its login request
\* was posted and failed, and never when its validate or its refresh request
\* succeeded; it posts each of validate, refresh and login at most once, in
\* that order.
C23_ErrorOnlyAfterLogin ==
    \A r \in Reqs :
        LET a == req[r].auth
        IN  /\ a.cb = "error"
                => /\ a.sent[Len(a.sent)] = "login"
                   /\ Failed(a.login)
                   /\ ~Succeeded(a.validate)
                   /\ ~Succeeded(a.refresh)
            /\ a.sent \in {<<>>, <<"validate">>, <<"validate", "refresh">>,
                           <<"validate", "refresh", "login">>, <<"login">>}

\* C24: the client token of an account is generated once.  Over the calls of
\* authenticate on the account, those whose login fails included, every
\* request posted carries the same client token, and a client token the
\* account record holds is never replaced.
C24_ClientTokenStable ==
    /\ [](\A r \in Reqs :
            \A i, j \in 1..Len(req[r].auth.clientTokens) :
                req[r].auth.clientTokens[i] = req[r].auth.clientTokens[j])
    /\ [][\A r \in Reqs :
            req[r].auth.stored.clientToken # ""
                => req'[r].auth.stored.clientToken = req[r].auth.stored.clientToken]_vars

\* C25: whenever a call of authenticate reports success, the token pair the
\* account record holds is one the authentication server accepts, whichever
\* of the validate, refresh and login paths led to the success.
C25_SuccessMeansAccepted ==
    \A r \in Reqs :
        LET a == req[r].auth
        IN  (a.pc = "done" /\ a.cb = "account")
                => /\ a.stored.accessToken # "" /\ a.stored.clientToken # ""
                   /\ a.stored \in a.valid

\* The request of completeChallenges was answered with a 2xx status.
Answered2xx(response) == ~response.err /\ Is2xx(response.statusCode)

\* C26: completeChallenges for an account with a stored answer.  A 2xx answer
\* to GET location ends it with success and no further request.  Otherwise
\* the question list is fetched, one answer per question id is posted, each
\* carrying the stored answer, and GET location is made again: success is
\* reported only when that last GET is answered 2xx.  Every call that ends
\* without success reports an error.
C26_ChallengeSequence ==
    \A r \in Reqs :
        LET c == req[r].challenges
        IN  c.security # ""
            => /\ Answered2xx(c.location)
                    => (c.sent = <<"GET location">> /\ c.pc = "done" /\ c.cb = "account")
               /\ c.pc = "POST location"
                    => /\ c.sent = <<"GET location", "GET challenges", "POST location">>
                       /\ Len(c.answers) = Len(c.list.questions)
                       /\ \A i \in 1..Len(c.answers) :
                             /\ c.answers[i].id = c.list.questions[i]
                             /\ c.answers[i].answer = c.security
               /\ c.pc = "done" => c.cb \in {"account", "error"}
               /\ (c.cb = "account" /\ ~Answered2xx(c.location))
                    => c.sent = <<"GET location", "GET challenges", "POST location",
                                  "GET location">>

\* C27: when the upstream skin-change request fails without any HTTP response
\* (a timeout or a transport error), the request fails with
\* SKIN_CHANGE_FAILED and the account is released with failure.
C27_SkinChangeNoResponse ==
    [][\A r \in Reqs :
          SkinChangeFailed(r, FALSE)
              => /\ req'[r].error = "skin_change_failed"
                 /\ req'[r].released = <<"failure">>]_vars

\* No account satisfies the eligibility predicate of the query of request r.
NoneEligible(r) ==
    \A a \in AccountIds :
        ~MatchesUsable(accounts[a], req[r].time, req[r].locked, req[r].server)

\* C28: when no account satisfies the eligibility predicate, the query answers
\* with no account and the request fails with NO_ACCOUNT_AVAILABLE; the locked
\* sets and every account record stay as they were, and the request makes no
\* authentication call and no upstream call.
C28_NoAccountAvailable ==
    /\ [][\A r \in Reqs :
            /\ (req[r].pc = "findOne" /\ NoneEligible(r) /\ req'[r] # req[r])
                  => /\ req'[r].doc = NoDoc /\ req'[r].pc = "selected"
                     /\ UNCHANGED <<accounts, lockedAccounts>>
            /\ (req[r].pc = "selected" /\ req[r].doc = NoDoc /\ req'[r] # req[r])
                  => /\ req'[r].error = "no_account_available"
                     /\ Ended(r)'
                     /\ UNCHANGED <<accounts, lockedAccounts>>]_vars
    /\ [](\A r \in Reqs :
            req[r].error = "no_account_available"
                => /\ Ended(r)
                   /\ req[r].lease = NoDoc /\ ~req[r].account
                   /\ req[r].released = <<>>
                   /\ req[r].upstream = {} /\ req[r].auth = NoAuth
                   /\ req[r].skin = NoSkin
                   /\ accounts \in StageAccounts
                   /\ lockedAccounts = [s \in Servers |-> {}])

\* A request found every account in a cooldown and ended with
\* NO_ACCOUNT_AVAILABLE.
C28_Witness ==
    \E r \in Reqs :
        /\ Ended(r) /\ req[r].error = "no_account_available"
        /\ \A a \in AccountIds : accounts[a].enabled
        /\ req[r].hash # NoHash

\* The tuple the query sorts by; a missing field is Unset, below every number.
SortKey(a) == <<a.lastUsed, a.lastSelected, a.sameTextureCounter>>

\* k is strictly smaller than l in the lexicographic order.
LexLess(k, l) ==
    \E i \in 1..3 : k[i] < l[i] /\ \A j \in 1..(i - 1) : k[j] = l[j]

\* The accounts eligible for the query of request r.
Eligible(r) ==
    {a \in AccountIds :
        MatchesUsable(accounts[a], req[r].time, req[r].locked, req[r].server)}

\* C29: among the accounts eligible at the time of the query, the one the
\* query answers with has a lexicographically minimal tuple (lastUsed,
\* lastSelected, sameTextureCounter): no eligible account with a strictly
\* smaller tuple is passed over.
C29_MinimalTuple ==
    [][\A r \in Reqs :
          (req[r].pc = "findOne" /\ Eligible(r) # {} /\ req'[r] # req[r])
              => /\ req'[r].doc.id \in Eligible(r)
                 /\ req'[r].doc = accounts[req'[r].doc.id]
                 /\ \A b \in Eligible(r) :
                       ~LexLess(SortKey(accounts[b]), SortKey(req'[r].doc))]_vars

\* findOne returned the account with the smaller sameTextureCounter of two
\* eligible accounts whose lastUsed and lastSelected are equal.
C29_Witness ==
    \E r \in Reqs, b \in AccountIds :
        /\ req[r].pc = "selected" /\ req[r].doc.id # Unset
        /\ b \in Eligible(r) /\ b # req[r].doc.id
        /\ accounts[b].lastUsed = req[r].doc.lastUsed
        /\ accounts[b].lastUsed # Unset
        /\ accounts[b].lastSelected = req[r].doc.lastSelected
        /\ accounts[b].sameTextureCounter > req[r].doc.sameTextureCounter

\* C30: for every count n >= 0 of globally usable accounts, n = 0 included,
\* the delay returned is MIN_ACCOUNT_DELAY / max(1, n) rounded to the nearest
\* integer: it is within one half of the quotient.
C30_DelayHint ==
    \A r \in Reqs :
        req[r].delay.pc = "done"
            => LET d == Max(1, req[r].delay.usable)
                   e == req[r].delay.hint * d - req[r].delay.min
               IN  2 * (IF e < 0 THEN -e ELSE e) <= d

\* The HTTP status of the taxonomy table for each error kind the orchestrator
\* raises.
TaxonomyStatus ==
    [invalid_image |-> 400, invalid_image_url |-> 400,
     no_account_available |-> 503, failed_to_create_id |-> 500,
     skin_change_failed |-> 500, invalid_skin_data |-> 500]

\* C31: a request that has ended with INVALID_IMAGE or INVALID_IMAGE_URL is
\* answered with status 400, with NO_ACCOUNT_AVAILABLE with 503, and with
\* FAILED_TO_CREATE_ID, SKIN_CHANGE_FAILED or INVALID_SKIN_DATA with 500,
\* wherever the error was raised.
C31_TaxonomyStatus ==
    \A r \in Reqs :
        req[r].error \in DOMAIN TaxonomyStatus
            => Status(req[r]) = TaxonomyStatus[req[r].error]

\* C32: a skin record that has been inserted keeps its id, its texture data
\* (value, signature and texture url, which the model holds as texture) and
\* every other field in every step; only its duplicate counter changes.
C32_SkinImmutable ==
    [][\A i \in SkinIds :
          skins[i].id # Unset
              => skins'[i] = [skins[i] EXCEPT !.duplicate = skins'[i].duplicate]]_vars

\* A duplicate hit has been saved on an inserted record.
C32_Witness ==
    \E i \in SkinIds, r \in Reqs :
        /\ skins[i].id # Unset /\ skins[i].duplicate > 0
        /\ req[r].pc = "done" /\ req[r].skin.id = i /\ req[r].duplicate.id = i

\* C33: in every step, a stored skin record stays stored and its duplicate
\* counter is not lower than before, also when duplicate hits on the record
\* interleave.
C33_DuplicateMonotonic ==
    [][\A i \in SkinIds :
          skins[i].id # Unset
              => /\ skins'[i].id = skins[i].id
                 /\ skins'[i].duplicate >= skins[i].duplicate]_vars

\* The request asked for the variant classic or slim.
AskedVariant(r) == req[r].pc # "idle" /\ req[r].options.model \in {CLASSIC, SLIM}

\* No step of a request that asked for classic or slim changes its variant.
VariantKept ==
    \A r \in Reqs : AskedVariant(r) => req'[r].options.model = req[r].options.model

\* The record a hash probe hits has the variant the request asked for.
ProbeUsesVariant ==
    \A r \in Reqs :
        (AskedVariant(r) /\ req[r].pc = "validate" /\ req'[r].pc = "saveDuplicate")
            => req'[r].duplicate.model = req[r].options.model

\* The record inserted has the variant the request asked for.
RecordUsesVariant ==
    \A r \in Reqs :
        (AskedVariant(r) /\ req[r].pc = "insertSkin" /\ req'[r].skin # NoSkin)
            => /\ req'[r].skin.model = req[r].options.model
               /\ skins'[req'[r].skin.id].model = req[r].options.model

\* C34: for a request that asked for the variant classic or slim, validation
\* leaves the variant as it is for every image, the hash probe matches
\* records of that variant, and the record persisted has that variant.
C34_RequestedVariant ==
    [][VariantKept /\ ProbeUsesVariant /\ RecordUsesVariant]_vars

\* C35: the stored lastUsed of an account changes only in the step in which a
\* request that holds the account completes the save of release-success; the
\* save of release-failure leaves it as it was.
C35_LastUsedOnlyOnSuccess ==
    [][\A a \in AccountIds :
          accounts'[a].lastUsed # accounts[a].lastUsed
              => \E r \in Reqs : /\ req[r].pc = "saveSuccess"
                                 /\ req[r].doc.id = a
                                 /\ req'[r].pc # "saveSuccess"]_vars

\* The value of a counter; a missing counter counts as 0.
Counter(x) == IF x = Unset THEN 0 ELSE x

ErrorOrSuccessZero(doc) ==
    Counter(doc.errorCounter) = 0 \/ Counter(doc.successCounter) = 0

\* C36: an account stored with errorCounter = 0 or successCounter = 0 is
\* still so after every step; its counters stay non-negative and its
\* totalSuccessCounter and totalErrorCounter are never lowered.
C36_CounterInvariant ==
    [][\A a \in AccountIds :
          ErrorOrSuccessZero(accounts[a])
              => /\ ErrorOrSuccessZero(accounts'[a])
                 /\ Counter(accounts'[a].errorCounter) >= 0
                 /\ Counter(accounts'[a].successCounter) >= 0
                 /\ Counter(accounts'[a].totalSuccessCounter)
                        >= Counter(accounts[a].totalSuccessCounter)
                 /\ Counter(accounts'[a].totalErrorCounter)
                        >= Counter(accounts[a].totalErrorCounter)]_vars

\* C37: once the stored errorCounter of an account has reached
\* ERROR_THRESHOLD, no step lowers it and no query of findUsable answers with
\* the account.
C37_ThresholdExcludes ==
    [][\A a \in AccountIds :
          (accounts[a].errorCounter # Unset /\ accounts[a].errorCounter >= ERROR_THRESHOLD)
              => /\ accounts'[a].errorCounter >= accounts[a].errorCounter
                 /\ \A r \in Reqs :
                       (req[r].pc = "findOne" /\ req'[r].pc = "selected")
                           => req'[r].doc.id # a]_vars

\* C38: a request from a user's uuid never acquires an account: none of its
\* steps changes an account record or a locked set, it holds no account, makes
\* no authentication and no skin-change call, and the skin it inserts has no
\* account.
C38_FromUserNoAccount ==
    /\ [][\A r \in Reqs :
            (req'[r].type = "user" /\ req'[r] # req[r])
                => UNCHANGED <<accounts, lockedAccounts>>]_vars
    /\ [](\A r \in Reqs :
            req[r].type = "user"
                => /\ req[r].doc = NoDoc /\ req[r].lease = NoDoc /\ ~req[r].account
                   /\ req[r].released = <<>>
                   /\ req[r].auth = NoAuth /\ req[r].bearer = ""
                   /\ req[r].upstream = {}
                   /\ (req[r].skin # NoSkin /\ req[r].duplicate = NoSkin)
                         => /\ req[r].skin.account = Unset
                            /\ skins[req[r].skin.id].account = Unset)

\* A request from a user's uuid has ended with a novel skin inserted.
C38_Witness ==
    \E r \in Reqs :
        /\ req[r].type = "user" /\ Ended(r) /\ req[r].error = "none"
        /\ req[r].duplicate = NoSkin
        /\ req[r].skin # NoSkin /\ skins[req[r].skin.id] = req[r].skin

\* C39: every call of completeChallenges is followed by an invocation of its
\* callback, whatever the security endpoints answer, and the callback, once
\* invoked, is not invoked again.
C39_CallbackOnce ==
    /\ \A r \in Reqs :
          (req[r].challenges.pc # "idle") ~> (req[r].challenges.cb # "none")
    /\ [][\A r \in Reqs :
            req[r].challenges.cb # "none"
                => req'[r].challenges.cb = req[r].challenges.cb]_vars
====
